---- MODULE Spec2Model ----
\* Firmware image assembly engine of pack_firmware.py: the FMAP section
\* model, the RO/RW preamble flag handling, the section splice
\* (merge_file), the EC RW extraction, the version manifest, the build of
\* a model (_ProcessModel) and the run over the models (Start).
EXTENDS Integers, Sequences, FiniteSets, TLC

VARIABLES fs, last, pre, prev, image_files, versions, steps, run

vars == <<fs, last, pre, prev, image_files, versions, steps, run>>

\* ---------------------------------------------------------------- bounds
MaxLen == 3       \* longest firmware blob of the section-clone runs
MaxOff == 1       \* largest section offset listed by a layout
MaxSize == 2      \* largest section size listed by a layout
MaxSteps == 3     \* operations per run
MaxBody == 2      \* longest EC_MAIN_A body / CBFS payload
MaxNames == 3     \* component records per manifest block

\* ------------------------------------------------------------ constants
IMAGE_MAIN == "bios.bin"
IMAGE_MAIN_RW == "bios_rw.bin"
IMAGE_EC == "ec.bin"
IMAGE_PD == "pd.bin"
OTHER_MAIN == "models/b/bios.bin"   \* BIOS image of a second model
TMP_ECRW == "tmp/ecrw"
TMP_EC_MAIN_A == "tmp/EC_MAIN_A"
NoSize == -1      \* merge_file's size=None
\* Firmware IDs and versions are strings of character codes.
IGNORE == <<73, 71, 78, 79, 82, 69>>     \* 'IGNORE'
NoName == ""      \* a filename of None

\* Display names of the components, as their character codes.
BIOS == <<66, 73, 79, 83>>

EC == <<69, 67>>

PD == <<80, 68>>

\* name + ' (RW)'
RwName(name) == name \o <<32, 40, 82, 87, 41>>

DisplayNames == {BIOS, RwName(BIOS), EC, RwName(EC), PD, RwName(PD)}

\* ------------------------------------------------------------- helpers
Min(a, b) == IF a < b THEN a ELSE b

Max(a, b) == IF a > b THEN a ELSE b

EmptyMap == [x \in {} |-> 0]

\* Python s[start:end] on a byte string (0-based, clipped at the end).
Slice(s, start, end) == SubSeq(s, start + 1, Min(end, Len(s)))

Zeros(n) == [i \in 1..n |-> 0]

\* Time of a write done during the run: later than every input's mtime.
MaxMtime == 3

Now == MaxMtime + 1

\* A file: its bytes, its mtime, and what the external tools report for
\* it: dump_fmap -p (layout lines), vbutil_firmware --verify (verify
\* lines), and the entries cbfstool can extract from it.
File(data, mtime, layout, verify, cbfs) ==
  [data |-> data, mtime |-> mtime, layout |-> layout, verify |-> verify,
   cbfs |-> cbfs]

PlainFile(data, mtime) == File(data, mtime, <<>>, <<>>, EmptyMap)

Section(offset, size) == [offset |-> offset, size |-> size]

LayoutLine(name, offset, size) == [name |-> name, offset |-> offset, size |-> size]

\* Outcome of a call: the exception raised ("none" on return), the
\* condition it reports, and the file system it leaves behind.
\* and the external tools it ran.
Ok(fsys) == [exc |-> "none", reason |-> "none", fs |-> fsys, ran |-> {}]

Raise(exc, reason, fsys) == [exc |-> exc, reason |-> reason, fs |-> fsys, ran |-> {}]

\* The outcome r of a call that ran the given tools before.
Ran(tools, r) == [r EXCEPT !.ran = @ \cup tools]

\* ---------------------------------------------------------- merge_file
\* (bug variant: the chunk is inserted, the bytes after it are shifted)
WriteAt_Insert(large, off, chunk) ==
  SubSeq(large, 1, off) \o chunk \o SubSeq(large, off + 1, Len(large))

\* output.seek(off); output.write(chunk) on a file opened 'r+': bytes
\* are overwritten in place, the file grows when the write runs past its
\* end, and a seek past the end is filled with zeros by the write.
WriteAt(large, off, chunk) ==
  IF chunk = <<>> THEN large
  ELSE LET padded == IF off > Len(large)
                     THEN large \o Zeros(off - Len(large)) ELSE large
       IN SubSeq(padded, 1, off) \o chunk
            \o SubSeq(padded, off + Len(chunk) + 1, Len(padded))

\* (bug variant: the size argument is ignored, the rest of the file is read)
ReadFrom_IgnoreSize(small, small_offset, size) ==
  Slice(small, small_offset, Len(small))

\* source.seek(small_offset); source.read() / source.read(size)
ReadFrom(small, small_offset, size) ==
  IF size = NoSize THEN Slice(small, small_offset, Len(small))
  ELSE Slice(small, small_offset, small_offset + size)

merge_file(fsys, large_path, small_path, large_offset, small_offset, size) ==
  IF large_path \notin DOMAIN fsys THEN Raise("IOError", large_path, fsys)
  ELSE IF small_path \notin DOMAIN fsys THEN Raise("IOError", small_path, fsys)
  ELSE LET chunk == ReadFrom(fsys[small_path].data, small_offset, size)
       IN Ok([fsys EXCEPT ![large_path].data = WriteAt(@, large_offset, chunk),
                          ![large_path].mtime = Now])

\* ------------------------------------------------------------- _GetFMAP
\* One dict entry per layout line, a later line replacing an earlier one
\* of the same name.
RECURSIVE GetFMAP(_)
GetFMAP(lines) ==
  IF lines = <<>> THEN EmptyMap
  ELSE LET l == lines[Len(lines)]
       IN (l.name :> Section(l.offset, l.size))
            @@ GetFMAP(SubSeq(lines, 1, Len(lines) - 1))

\* ------------------------------------------------ _CloneFirmwareSection
\* (bug variant: the offset comparison is missing)
CloneFirmwareSection_NoOffsetCheck(fsys, dst, src, section) ==
  LET src_map == GetFMAP(fsys[src].layout)
      dst_map == GetFMAP(fsys[dst].layout)
  IN IF section \notin DOMAIN src_map THEN Raise("KeyError", section, fsys)
     ELSE IF section \notin DOMAIN dst_map THEN Raise("KeyError", section, fsys)
     ELSE LET src_section == src_map[section]
              dst_section == dst_map[section]
          IN IF src_section.size = 0
             THEN Raise("PackError", "InvalidSection", fsys)
             ELSE IF src_section.size # dst_section.size
             THEN Raise("PackError", "SectionSizeMismatch", fsys)
             ELSE merge_file(fsys, dst, src, dst_section.offset,
                             src_section.offset, src_section.size)

CloneFirmwareSection(fsys, dst, src, section) ==
  LET src_map == GetFMAP(fsys[src].layout)
      dst_map == GetFMAP(fsys[dst].layout)
  IN IF section \notin DOMAIN src_map THEN Raise("KeyError", section, fsys)
     ELSE IF section \notin DOMAIN dst_map THEN Raise("KeyError", section, fsys)
     ELSE LET src_section == src_map[section]
              dst_section == dst_map[section]
          IN IF src_section.size = 0
             THEN Raise("PackError", "InvalidSection", fsys)
             ELSE IF src_section.size # dst_section.size
             THEN Raise("PackError", "SectionSizeMismatch", fsys)
             ELSE IF src_section.offset # dst_section.offset
             THEN Raise("PackError", "SectionOffsetMismatch", fsys)
             ELSE merge_file(fsys, dst, src, dst_section.offset,
                             src_section.offset, src_section.size)

\* ---------------------------------------------------- _GetPreambleFlags
\* A line of vbutil_firmware's output: its label and the tokens after it.
VerifyLine(label, tokens) == [label |-> label, tokens |-> tokens]

\* [line for line in result.output.splitlines() if 'Preamble flags' in line]
FlagLines(output) == SelectSeq(output, LAMBDA line : line.label = "Preamble flags:")

\* Returns the flags in .value, or raises.
GetPreambleFlags(fsys, fname) ==
  IF fname \notin DOMAIN fsys
  THEN [exc |-> "RunCommandError", reason |-> "dump_fmap", value |-> 0]
  ELSE LET lines == FlagLines(fsys[fname].verify)
       IN IF Len(lines) # 1
          THEN [exc |-> "PackError", reason |-> "FlagReadError", value |-> 0]
          ELSE [exc |-> "none", reason |-> "none",
                value |-> lines[1].tokens[Len(lines[1].tokens)]]

VerifyTools == {"dump_fmap", "gbb_utility", "vbutil_firmware"}

\* ---------------------------------------------------- _SetPreambleFlags
\* resign_firmwarefd.sh writes outfile: infile signed again with the
\* given preamble flags.
SetPreambleFlags(fsys, infile, outfile, preamble_flags) ==
  LET resigned(line) ==
        IF line.label = "Preamble flags:"
        THEN VerifyLine(line.label, <<preamble_flags>>) ELSE line
      out == [fsys[infile] EXCEPT
                !.verify = [i \in 1..Len(@) |-> resigned(@[i])],
                !.mtime = Now]
  IN Ran({"resign_firmwarefd.sh"}, Ok((outfile :> out) @@ fsys))

\* ------------------------------------------------------- _CopyTimestamp
\* (bug variant: the times are not copied)
CopyTimestamp_Skipped(fsys, reference_fname, fname) == fsys

CopyTimestamp(fsys, reference_fname, fname) ==
  [fsys EXCEPT ![fname].mtime = fsys[reference_fname].mtime]

\* ---------------------------------------------------- _CreateRwFirmware
\* preamble_flags & 1
Bit0(flags) == flags % 2

\* (bug variant: bit 0 is set instead of toggled)
ToggleBit0_Set(flags) == IF flags % 2 = 1 THEN flags ELSE flags + 1

\* preamble_flags ^ 1
ToggleBit0(flags) == IF flags % 2 = 1 THEN flags - 1 ELSE flags + 1

\* (bug variant: the RO_NORMAL test is missing)
CreateRwFirmware_NoCheck(fsys, ro_fname, rw_fname) ==
  LET got == GetPreambleFlags(fsys, ro_fname)
  IN IF got.exc # "none"
     THEN Ran(VerifyTools, Raise(got.exc, got.reason, fsys))
     ELSE LET set == SetPreambleFlags(fsys, ro_fname, rw_fname,
                                      ToggleBit0(got.value))
          IN Ran(VerifyTools,
                 [set EXCEPT !.fs = CopyTimestamp(@, ro_fname, rw_fname)])

CreateRwFirmware(fsys, ro_fname, rw_fname) ==
  LET got == GetPreambleFlags(fsys, ro_fname)
  IN IF got.exc # "none"
     THEN Ran(VerifyTools, Raise(got.exc, got.reason, fsys))
     ELSE IF Bit0(got.value) = 0
     THEN Ran(VerifyTools, Raise("PackError", "NotReadOnlyFirmware", fsys))
     ELSE LET set == SetPreambleFlags(fsys, ro_fname, rw_fname,
                                      ToggleBit0(got.value))
          IN Ran(VerifyTools,
                 [set EXCEPT !.fs = CopyTimestamp(@, ro_fname, rw_fname)])

\* ----------------------------------------------------- _CheckRwFirmware
CheckRwFirmware(fsys, fname) ==
  LET got == GetPreambleFlags(fsys, fname)
  IN IF got.exc # "none"
     THEN Ran(VerifyTools, Raise(got.exc, got.reason, fsys))
     ELSE IF Bit0(got.value) = 1
     THEN Ran(VerifyTools, Raise("PackError", "NotReadWriteFirmware", fsys))
     ELSE Ran(VerifyTools, Ok(fsys))

\* ------------------------------------------------ _ExtractEcRwUsingFMAP
\* struct.pack('<I', n)
EncodeU32(n) ==
  <<n % 256, (n \div 256) % 256, (n \div 65536) % 256, (n \div 16777216) % 256>>

\* struct.unpack('<I', b)
DecodeU32(b) == b[1] + 256 * b[2] + 65536 * b[3] + 16777216 * b[4]

\* dump_fmap -x fname section: the section's bytes go to a file of the
\* section's name in the temporary directory.
DumpSection(fsys, fname, section) ==
  LET sec == GetFMAP(fsys[fname].layout)[section]
      bytes == Slice(fsys[fname].data, sec.offset, sec.offset + sec.size)
  IN (TMP_EC_MAIN_A :> PlainFile(bytes, Now)) @@ fsys

\* osutils.Touch: the file is created empty if missing, kept otherwise.
Touch(fsys, fname) ==
  IF fname \in DOMAIN fsys THEN [fsys EXCEPT ![fname].mtime = Now]
  ELSE (fname :> PlainFile(<<>>, Now)) @@ fsys

ExtractEcRwUsingFMAP(fsys, fname, ecrw_fname) ==
  LET dumped == DumpSection(fsys, fname, "EC_MAIN_A")
      head == Slice(dumped[TMP_EC_MAIN_A].data, 0, 12)
  IN IF Len(head) < 12
     THEN Ran({"dump_fmap"}, Raise("struct.error", "short header", dumped))
     ELSE LET count == DecodeU32(SubSeq(head, 1, 4))
              offset == DecodeU32(SubSeq(head, 5, 8))
              size == DecodeU32(SubSeq(head, 9, 12))
          IN IF count # 1 \/ offset # 12
             \* the message is built with '%' applied to count alone
             THEN Ran({"dump_fmap"},
                      Raise("TypeError", "not enough arguments for format string",
                            dumped))
             ELSE Ran({"dump_fmap"},
                      merge_file(Touch(dumped, ecrw_fname), ecrw_fname,
                                 TMP_EC_MAIN_A, 0, offset, size))

\* ------------------------------------------------ _ExtractEcRwUsingCBFS
\* cbfstool extract writes the named entry to ecrw_fname.
ExtractEcRwUsingCBFS(fsys, fname, cbfs_name, ecrw_fname) ==
  IF cbfs_name \notin DOMAIN fsys[fname].cbfs
  THEN Ran({"cbfstool"}, Raise("RunCommandError", "cbfstool", fsys))
  ELSE Ran({"cbfstool"},
           Ok((ecrw_fname :> PlainFile(fsys[fname].cbfs[cbfs_name], Now)) @@ fsys))

\* --------------------------------------------------------- _ExtractEcRw
ExtractEcRw(fsys, fname, cbfs_name, ecrw_fname) ==
  IF "EC_MAIN_A" \in DOMAIN GetFMAP(fsys[fname].layout)
  THEN ExtractEcRwUsingFMAP(fsys, fname, ecrw_fname)
  ELSE ExtractEcRwUsingCBFS(fsys, fname, cbfs_name, ecrw_fname)

\* --------------------------------------------------- _MergeRwEcFirmware
\* (bug variant: a payload that fills the section exactly is refused)
MergeRwEcFirmware_Strict(fsys, ec_fname, rw_fname, cbfs_name) ==
  LET ext == ExtractEcRw(fsys, rw_fname, cbfs_name, TMP_ECRW)
      ec_map == GetFMAP(fsys[ec_fname].layout)
  IN IF ext.exc # "none" THEN ext
     ELSE IF "EC_RW" \notin DOMAIN ec_map
     THEN Ran(ext.ran, Raise("KeyError", "EC_RW", ext.fs))
     ELSE IF ec_map["EC_RW"].size <= Len(ext.fs[TMP_ECRW].data)
     THEN Ran(ext.ran, Raise("PackError", "PayloadTooLarge", ext.fs))
     ELSE LET merged == merge_file(ext.fs, ec_fname, TMP_ECRW,
                                   ec_map["EC_RW"].offset, 0, NoSize)
          IN Ran(ext.ran,
                 [merged EXCEPT !.fs = CopyTimestamp(@, rw_fname, ec_fname)])

MergeRwEcFirmware(fsys, ec_fname, rw_fname, cbfs_name) ==
  LET ext == ExtractEcRw(fsys, rw_fname, cbfs_name, TMP_ECRW)
      ec_map == GetFMAP(fsys[ec_fname].layout)
  IN IF ext.exc # "none" THEN ext
     ELSE IF "EC_RW" \notin DOMAIN ec_map
     THEN Ran(ext.ran, Raise("KeyError", "EC_RW", ext.fs))
     ELSE IF ec_map["EC_RW"].size < Len(ext.fs[TMP_ECRW].data)
     THEN Ran(ext.ran, Raise("PackError", "PayloadTooLarge", ext.fs))
     ELSE LET merged == merge_file(ext.fs, ec_fname, TMP_ECRW,
                                   ec_map["EC_RW"].offset, 0, NoSize)
          IN Ran(ext.ran,
                 [merged EXCEPT !.fs = CopyTimestamp(@, rw_fname, ec_fname)])

\* ------------------------------------------------------ _AddVersionInfo
ImageFile(filename, version) == [filename |-> filename, version |-> version]

\* A line of the version text: "<name> image:<pad>*<digest> *<path>",
\* "<name> version:<pad><value>", or an empty line.
TextLine(name, kind, pad, digest, path, value) ==
  [name |-> name, kind |-> kind, pad |-> pad, digest |-> digest, path |-> path,
   value |-> value]

BlankLine == TextLine(<<>>, "blank", 0, <<>>, "", <<>>)

\* The MD5 digest of a file's bytes, kept symbolic.
Md5(data) == <<"md5">> \o data

\* The filename as printed: base directory and build directory replaced,
\* kept symbolic.
ShortFname(fname) == fname

\* (bug variant: the IGNORE marker is printed like a version)
AddVersionInfo_PrintIgnore(fsys, name, fname, version) ==
  LET vlines == IF version # <<>>
                THEN <<TextLine(name, "version", Max(1, 5 - Len(name)), <<>>, "",
                                version)>>
                ELSE <<>>
  IN IF fname # NoName
     THEN IF fname \notin DOMAIN fsys
          THEN [exc |-> "IOError", lines |-> <<>>]
          ELSE [exc |-> "none",
                lines |-> <<TextLine(name, "image", Max(3, 7 - Len(name)),
                                     Md5(fsys[fname].data), ShortFname(fname), <<>>)>>
                            \o vlines]
     ELSE [exc |-> "none", lines |-> vlines]

\* Returns the lines added for one file, or raises IOError.
AddVersionInfo(fsys, name, fname, version) ==
  LET vlines == IF version # <<>> /\ version # IGNORE
                THEN <<TextLine(name, "version", Max(1, 5 - Len(name)), <<>>, "",
                                version)>>
                ELSE <<>>
  IN IF fname # NoName
     THEN IF fname \notin DOMAIN fsys
          THEN [exc |-> "IOError", lines |-> <<>>]
          ELSE [exc |-> "none",
                lines |-> <<TextLine(name, "image", Max(3, 7 - Len(name)),
                                     Md5(fsys[fname].data), ShortFname(fname), <<>>)>>
                            \o vlines]
     ELSE [exc |-> "none", lines |-> vlines]

\* ------------------------------------------------------- _WriteVersions
\* Python's order on str: by character code, a proper prefix first.
LexLess(a, b) ==
  \E k \in 1..(Min(Len(a), Len(b)) + 1) :
    /\ \A j \in 1..(k - 1) : a[j] = b[j]
    /\ \/ k > Len(a) /\ k <= Len(b)
       \/ k <= Len(a) /\ k <= Len(b) /\ a[k] < b[k]

RemoveAt(seq, i) == SubSeq(seq, 1, i - 1) \o SubSeq(seq, i + 1, Len(seq))

\* (bug variant: the keys are taken in the dict's own order)
Sorted_Unsorted(keys) == keys

\* sorted(keys)
RECURSIVE Sorted(_)
Sorted(keys) ==
  IF keys = <<>> THEN <<>>
  ELSE LET i == CHOOSE i \in 1..Len(keys) :
                  \A j \in 1..Len(keys) : ~LexLess(keys[j], keys[i])
       IN <<keys[i]>> \o Sorted(RemoveAt(keys, i))

\* The dict is a sequence of <<name, ImageFile>> pairs in the order of
\* insertion. image_files.keys() and image_files[name]
Keys(dict) == [i \in 1..Len(dict) |-> dict[i][1]]

Lookup(dict, name) == dict[CHOOSE i \in 1..Len(dict) : dict[i][1] = name][2]

\* image_files[name] = value
DictSet(dict, name, value) ==
  IF \E i \in 1..Len(dict) : dict[i][1] = name
  THEN [i \in 1..Len(dict) |-> IF dict[i][1] = name THEN <<name, value>> ELSE dict[i]]
  ELSE Append(dict, <<name, value>>)

\* The loop over the sorted names: the lines printed until it ends or raises.
RECURSIVE AddVersions(_, _, _)
AddVersions(fsys, dict, names) ==
  IF names = <<>> THEN [exc |-> "none", lines |-> <<>>]
  ELSE LET image_file == Lookup(dict, Head(names))
           one == AddVersionInfo(fsys, Head(names), image_file.filename,
                                 image_file.version)
       IN IF one.exc # "none" THEN one
          ELSE LET rest == AddVersions(fsys, dict, Tail(names))
               IN [exc |-> rest.exc, lines |-> one.lines \o rest.lines]

WriteVersions(fsys, dict) ==
  LET added == AddVersions(fsys, dict, Sorted(Keys(dict)))
  IN [exc |-> added.exc, lines |-> <<BlankLine>> \o added.lines]

\* --------------------------------------------------------- _ExtractFrid
Whitespace == {9, 10, 11, 12, 13, 32}

\* data.replace('\x00', '')
DropNuls(data) == SelectSeq(data, LAMBDA b : b # 0)

\* str.strip()
Strip(text) ==
  LET keep == {i \in 1..Len(text) : text[i] \notin Whitespace}
  IN IF keep = {} THEN <<>>
     ELSE SubSeq(text, CHOOSE i \in keep : \A j \in keep : i <= j,
                 CHOOSE i \in keep : \A j \in keep : i >= j)

\* The file in the temporary directory that dump_fmap -x writes a
\* section to: os.path.join(self._tmpdir, section_name).
TmpPath(section_name) ==
  CASE section_name = "RO_FRID" -> "tmp/RO_FRID"
    [] section_name = "RW_FWID" -> "tmp/RW_FWID"
    [] section_name = "RW_SECTION_A" -> "tmp/RW_SECTION_A"
    [] section_name = "RW_SECTION_B" -> "tmp/RW_SECTION_B"
    [] section_name = "EC_RW" -> "tmp/EC_RW"
    [] section_name = "EC_MAIN_A" -> TMP_EC_MAIN_A

Remove(fsys, fname) == [p \in DOMAIN fsys \ {fname} |-> fsys[p]]

\* dump_fmap -x image_file: every section of the image goes to a file of
\* the section's name; nothing is written for a file that is missing or
\* has no FMAP, and the exit code is ignored.
DumpAllSections(fsys, image_file) ==
  IF image_file \notin DOMAIN fsys THEN fsys
  ELSE LET map == GetFMAP(fsys[image_file].layout)
           dumps == {TmpPath(s) : s \in DOMAIN map}
           of(p) == CHOOSE s \in DOMAIN map : TmpPath(s) = p
       IN [p \in DOMAIN fsys \cup dumps |->
             IF p \in dumps
             THEN PlainFile(Slice(fsys[image_file].data, map[of(p)].offset,
                                  map[of(p)].offset + map[of(p)].size), Now)
             ELSE fsys[p]]

\* The program as it is run (self._testing is False): a stale section
\* file is removed before the tool runs. The ID is '' when the tool has
\* not written the section.
ExtractFrid(fsys, image_file, section_name) ==
  LET fname == TmpPath(section_name)
      dumped == DumpAllSections(Remove(fsys, fname), image_file)
  IN [fs |-> dumped,
      value |-> IF fname \in DOMAIN dumped
                THEN Strip(DropNuls(dumped[fname].data)) ELSE <<>>]

\* --------------------------------------------------------- shutil.copy2
\* The bytes and the mtime go to dst; the tools read dst as they read src.
Copy2(fsys, src, dst) ==
  IF src \notin DOMAIN fsys THEN Raise("IOError", src, fsys)
  ELSE Ok((dst :> fsys[src]) @@ fsys)

\* ----------------------------------------------------- _MergeRwFirmware
\* (bug variant: RW_SECTION_B is left as it was)
MergeRwFirmware_OnlyA(fsys, ro_fname, rw_fname) ==
  LET a == CloneFirmwareSection(fsys, ro_fname, rw_fname, "RW_SECTION_A")
  IN IF a.exc # "none" THEN a
     ELSE [a EXCEPT !.fs = CopyTimestamp(@, rw_fname, ro_fname)]

MergeRwFirmware(fsys, ro_fname, rw_fname) ==
  LET a == CloneFirmwareSection(fsys, ro_fname, rw_fname, "RW_SECTION_A")
  IN IF a.exc # "none" THEN a
     ELSE LET b == CloneFirmwareSection(a.fs, ro_fname, rw_fname, "RW_SECTION_B")
          IN IF b.exc # "none" THEN b
             ELSE [b EXCEPT !.fs = CopyTimestamp(@, rw_fname, ro_fname)]

\* --------------------------------------------------- _CopyFirmwareFiles
\* The function's locals while it runs: the exception raised so far, the
\* files, the tools run, image_files, merge_bios_rw_image, bios_rw_image
\* and the calls made, in order.
Locals(fsys, a) ==
  [exc |-> "none", reason |-> "none", fs |-> fsys, ran |-> {},
   image_files |-> <<>>, merge |-> a.merge_bios_rw_image,
   bios_rw_image |-> a.bios_rw_image, trace |-> <<>>]

\* Body applied to a value that is computed once.
With(value, Body(_)) == CHOOSE r \in {Body(v) : v \in {value}} : TRUE

\* The locals after a call with outcome r was made.
After(c, event, r) ==
  With(r, LAMBDA v :
    [c EXCEPT !.exc = v.exc, !.reason = v.reason, !.fs = v.fs,
              !.ran = @ \cup v.ran, !.trace = Append(@, event)])

\* The locals after _ExtractFrid returned x.
AfterExtract(c, image_file, x) ==
  [c EXCEPT !.fs = x.fs, !.ran = @ \cup {"dump_fmap"},
            !.trace = Append(@, <<"_ExtractFrid", image_file>>)]

\* (bug variant: an empty RO ID is recorded as it is)
CopyBios_EmptyVersion(a, c) ==
  IF a.bios_image = NoName THEN [c EXCEPT !.merge = FALSE]
  ELSE With(ExtractFrid(c.fs, a.bios_image, "RO_FRID"), LAMBDA frid :
       With(After(AfterExtract(c, a.bios_image, frid), <<"copy2", a.bios_image>>,
                  Copy2(frid.fs, a.bios_image, a.image_main)), LAMBDA copied :
         IF copied.exc # "none" THEN copied
         ELSE [copied EXCEPT !.image_files =
                 DictSet(@, BIOS, ImageFile(a.bios_image, frid.value))]))

\* if bios_image: ... else: merge_bios_rw_image = False
CopyBios(a, c) ==
  IF a.bios_image = NoName THEN [c EXCEPT !.merge = FALSE]
  ELSE With(ExtractFrid(c.fs, a.bios_image, "RO_FRID"), LAMBDA frid :
       With(After(AfterExtract(c, a.bios_image, frid), <<"copy2", a.bios_image>>,
                  Copy2(frid.fs, a.bios_image, a.image_main)), LAMBDA copied :
         IF copied.exc # "none" THEN copied
         ELSE [copied EXCEPT !.image_files =
                 DictSet(@, BIOS,
                         ImageFile(a.bios_image,
                                   IF frid.value = <<>> THEN IGNORE ELSE frid.value))]))

\* (bug variant: merging stays on after the RW image was created)
CreateBiosRw_KeepMerge(a, c) ==
  IF c.exc # "none" \/ ~(c.bios_rw_image = NoName /\ a.create_bios_rw_image) THEN c
  ELSE [After(c, <<"_CreateRwFirmware", a.image_main_rw>>,
              CreateRwFirmware(c.fs, a.bios_image, a.image_main_rw))
          EXCEPT !.bios_rw_image = a.image_main_rw]

\* if not bios_rw_image and create_bios_rw_image: ...
CreateBiosRw(a, c) ==
  IF c.exc # "none" \/ ~(c.bios_rw_image = NoName /\ a.create_bios_rw_image) THEN c
  ELSE [After(c, <<"_CreateRwFirmware", a.image_main_rw>>,
              CreateRwFirmware(c.fs, a.bios_image, a.image_main_rw))
          EXCEPT !.bios_rw_image = a.image_main_rw, !.merge = FALSE]

\* if merge_bios_rw_image: ... elif bios_rw_image != image_main_rw: ...
PlaceBiosRw(a, c) ==
  IF c.merge
  THEN After(c, <<"_MergeRwFirmware", c.bios_rw_image>>,
             MergeRwFirmware(c.fs, a.image_main, c.bios_rw_image))
  ELSE IF c.bios_rw_image # a.image_main_rw
  THEN After(c, <<"copy2", c.bios_rw_image>>,
             Copy2(c.fs, c.bios_rw_image, a.image_main_rw))
  ELSE c

\* (bug variant: the RW image is not recorded)
CopyBiosRw_NoRecord(a, c) ==
  IF c.exc # "none" THEN c
  ELSE IF c.bios_rw_image = NoName THEN [c EXCEPT !.merge = FALSE]
  ELSE With(After(c, <<"_CheckRwFirmware", c.bios_rw_image>>,
                  CheckRwFirmware(c.fs, c.bios_rw_image)), LAMBDA checked :
         IF checked.exc # "none" THEN checked
         ELSE With(ExtractFrid(checked.fs, c.bios_rw_image, "RO_FRID"), LAMBDA frid :
                PlaceBiosRw(a, AfterExtract(checked, c.bios_rw_image, frid))))

\* if bios_rw_image: ... else: merge_bios_rw_image = False
CopyBiosRw(a, c) ==
  IF c.exc # "none" THEN c
  ELSE IF c.bios_rw_image = NoName THEN [c EXCEPT !.merge = FALSE]
  ELSE With(After(c, <<"_CheckRwFirmware", c.bios_rw_image>>,
                  CheckRwFirmware(c.fs, c.bios_rw_image)), LAMBDA checked :
         IF checked.exc # "none" THEN checked
         ELSE With(ExtractFrid(checked.fs, c.bios_rw_image, "RO_FRID"), LAMBDA frid :
              With(PlaceBiosRw(a, AfterExtract(checked, c.bios_rw_image, frid)),
                   LAMBDA placed :
                IF placed.exc # "none" THEN placed
                ELSE [placed EXCEPT !.image_files =
                        DictSet(@, RwName(BIOS),
                                ImageFile(c.bios_rw_image, frid.value))])))

\* if merge_bios_rw_image: (the RW payload goes into the EC or PD image)
MergeController(a, c, name, artifact, cbfs_name) ==
  IF c.exc # "none" \/ ~c.merge THEN c
  ELSE With(After(c, <<"_MergeRwEcFirmware", artifact>>,
                  MergeRwEcFirmware(c.fs, artifact, a.image_main, cbfs_name)),
            LAMBDA merged :
         IF merged.exc # "none" THEN merged
         ELSE With(ExtractFrid(merged.fs, artifact, "RW_FWID"), LAMBDA rw_fwid :
                [AfterExtract(merged, artifact, rw_fwid) EXCEPT !.image_files =
                   DictSet(@, RwName(name), ImageFile(NoName, rw_fwid.value))]))

\* if ec_image: ... / if pd_image: ...; only the EC version has a default.
CopyController(a, c, name, image, artifact, cbfs_name, default_version) ==
  IF c.exc # "none" \/ image = NoName THEN c
  ELSE With(ExtractFrid(c.fs, image, "RO_FRID"), LAMBDA frid :
       With([AfterExtract(c, image, frid) EXCEPT !.image_files =
               DictSet(@, name,
                       ImageFile(image, IF frid.value = <<>> /\ default_version # <<>>
                                        THEN default_version ELSE frid.value))],
            LAMBDA recorded :
       With(After(recorded, <<"copy2", image>>, Copy2(recorded.fs, image, artifact)),
            LAMBDA copied : MergeController(a, copied, name, artifact, cbfs_name))))

\* (bug variant: the default EC version is used for the PD image too)
CopyFirmwareFiles_PdDefault(fsys, a) ==
  With(CopyBios(a, Locals(fsys, a)), LAMBDA bios :
  With(CreateBiosRw(a, bios), LAMBDA created :
  With(CopyBiosRw(a, created), LAMBDA rw :
  With(CopyController(a, rw, EC, a.ec_image, a.image_ec, "ecrw",
                      a.default_ec_version), LAMBDA ec :
    CopyController(a, ec, PD, a.pd_image, a.image_pd, "pdrw",
                   a.default_ec_version)))))

CopyFirmwareFiles(fsys, a) ==
  With(CopyBios(a, Locals(fsys, a)), LAMBDA bios :
  With(CreateBiosRw(a, bios), LAMBDA created :
  With(CopyBiosRw(a, created), LAMBDA rw :
  With(CopyController(a, rw, EC, a.ec_image, a.image_ec, "ecrw",
                      a.default_ec_version), LAMBDA ec :
    CopyController(a, ec, PD, a.pd_image, a.image_pd, "pdrw", <<>>)))))

\* ------------------------------------------------------ _GetReplaceDict
Has(dict, name) == \E i \in 1..Len(dict) : dict[i][1] = name

\* image_files.get(name, empty).version
VersionOf(dict, name) == IF Has(dict, name) THEN Lookup(dict, name).version ELSE <<>>

\* (bug variant: the version is not split)
SplitFirst_Whole(text) == text

\* version.split('.')[0]
SplitFirst(text) ==
  LET dots == {i \in 1..Len(text) : text[i] = 46}
  IN IF dots = {} THEN text
     ELSE SubSeq(text, 1, (CHOOSE i \in dots : \A j \in dots : i <= j) - 1)

NoDict == [exc |-> "none", reason |-> "none", map |-> <<>>]

\* (bug variant: the RW ID is always the RO ID)
GetReplaceDict_RoOnly(dict, stable_main_version, stable_ec_version, stable_pd_version) ==
  IF ~Has(dict, BIOS) THEN [exc |-> "KeyError", reason |-> "BIOS", map |-> <<>>]
  ELSE LET ec == VersionOf(dict, EC)
           pd == VersionOf(dict, PD)
       IN [exc |-> "none", reason |-> "none",
           map |-> [REPLACE_RO_FWID |-> Lookup(dict, BIOS).version,
                    REPLACE_FWID |-> Lookup(dict, BIOS).version,
                    REPLACE_ECID |-> IF ec = <<>> THEN IGNORE ELSE ec,
                    REPLACE_PDID |-> IF pd = <<>> THEN IGNORE ELSE pd,
                    REPLACE_PLATFORM |-> SplitFirst(Lookup(dict, BIOS).version),
                    REPLACE_STABLE_FWID |-> stable_main_version,
                    REPLACE_STABLE_ECID |-> stable_ec_version,
                    REPLACE_STABLE_PDID |-> stable_pd_version]]

\* image_files['BIOS'] raises KeyError when no BIOS image was recorded.
GetReplaceDict(dict, stable_main_version, stable_ec_version, stable_pd_version) ==
  IF ~Has(dict, BIOS) THEN [exc |-> "KeyError", reason |-> "BIOS", map |-> <<>>]
  ELSE LET rw == VersionOf(dict, RwName(BIOS))
           ec == VersionOf(dict, EC)
           pd == VersionOf(dict, PD)
       IN [exc |-> "none", reason |-> "none",
           map |-> [REPLACE_RO_FWID |-> Lookup(dict, BIOS).version,
                    REPLACE_FWID |-> IF rw = <<>> THEN Lookup(dict, BIOS).version
                                     ELSE rw,
                    REPLACE_ECID |-> IF ec = <<>> THEN IGNORE ELSE ec,
                    REPLACE_PDID |-> IF pd = <<>> THEN IGNORE ELSE pd,
                    REPLACE_PLATFORM |-> SplitFirst(Lookup(dict, BIOS).version),
                    REPLACE_STABLE_FWID |-> stable_main_version,
                    REPLACE_STABLE_ECID |-> stable_ec_version,
                    REPLACE_STABLE_PDID |-> stable_pd_version]]

\* -------------------------------------------------------- _ProcessModel
\* os.path.join(self._basedir, models_dir, model, leaf): the artifacts of
\* a unified build's model are in a directory of their own.
\* (bug variant: every model's artifacts in the base directory itself)
ModelPath_Flat(model, leaf) == leaf

ModelPath(model, leaf) ==
  CASE model = "" -> leaf
    [] model = "a" /\ leaf = IMAGE_MAIN -> "models/a/bios.bin"
    [] model = "a" /\ leaf = IMAGE_MAIN_RW -> "models/a/bios_rw.bin"
    [] model = "a" /\ leaf = IMAGE_EC -> "models/a/ec.bin"
    [] model = "a" /\ leaf = IMAGE_PD -> "models/a/pd.bin"
    [] model = "b" /\ leaf = IMAGE_MAIN -> OTHER_MAIN
    [] model = "b" /\ leaf = IMAGE_MAIN_RW -> "models/b/bios_rw.bin"
    [] model = "b" /\ leaf = IMAGE_EC -> "models/b/ec.bin"
    [] model = "b" /\ leaf = IMAGE_PD -> "models/b/pd.bin"

\* The lines _CopyExtraFiles prints, or its PackError for an empty folder.
CopyExtraFiles(extras) ==
  IF extras = "empty folder"
  THEN [exc |-> "PackError", reason |-> "cannot copy extra files", lines |-> <<>>]
  ELSE [exc |-> "none", reason |-> "none",
        lines |-> IF extras = "none" THEN <<>>
                  ELSE <<TextLine(<<>>, "extra", 0, <<>>, extras, <<>>)>>]

Failed(exc, reason, fsys) ==
  [exc |-> exc, reason |-> reason, fs |-> fsys, ran |-> {}, image_files |-> <<>>,
   trace |-> <<>>, lines |-> <<>>]

\* _ProcessModel once its checks have passed: the images are placed, the
\* version block is written and the extra files are copied. _CopyBaseFiles
\* copies the tools and the scripts, which were found, next to the images.
PlaceModel(fsys, merge, m) ==
  With(CopyFirmwareFiles(fsys,
         [bios_image |-> m.bios_image, bios_rw_image |-> m.bios_rw_image,
          ec_image |-> m.ec_image, pd_image |-> m.pd_image,
          default_ec_version |-> m.default_ec_version,
          create_bios_rw_image |-> m.create_bios_rw_image,
          merge_bios_rw_image |-> merge,
          image_main |-> ModelPath(m.model, IMAGE_MAIN),
          image_main_rw |-> ModelPath(m.model, IMAGE_MAIN_RW),
          image_ec |-> ModelPath(m.model, IMAGE_EC),
          image_pd |-> ModelPath(m.model, IMAGE_PD)]), LAMBDA c :
    LET done == [exc |-> c.exc, reason |-> c.reason, fs |-> c.fs, ran |-> c.ran,
                 image_files |-> c.image_files, trace |-> c.trace, lines |-> <<>>]
        extra == CopyExtraFiles(m.extras)
    IN IF c.exc # "none" THEN done
       ELSE With(WriteVersions(c.fs, c.image_files), LAMBDA written :
              IF written.exc # "none"
              THEN [done EXCEPT !.exc = written.exc, !.reason = "open",
                                !.lines = written.lines]
              ELSE IF extra.exc # "none"
              THEN [done EXCEPT !.exc = extra.exc, !.reason = extra.reason,
                                !.lines = written.lines]
              ELSE [done EXCEPT !.lines = written.lines \o extra.lines]))

\* (bug variant: a build without a BIOS image is refused)
ProcessModel_BiosRequired(fsys, merge, m) ==
  IF ~m.script_exists THEN Failed("PackError", "Cannot find required file", fsys)
  ELSE IF ~m.tools_found THEN Failed("PackError", "Cannot find tool", fsys)
  ELSE IF m.bios_image = NoName
  THEN Failed("PackError", "NoImageProvided", fsys)
  ELSE PlaceModel(fsys, merge, m)

\* m holds the arguments of the call and what the checks of the script
\* and the tools find; merge is args.merge_bios_rw_image.
ProcessModel(fsys, merge, m) ==
  IF ~m.script_exists THEN Failed("PackError", "Cannot find required file", fsys)
  ELSE IF ~m.tools_found THEN Failed("PackError", "Cannot find tool", fsys)
  ELSE IF m.bios_image = NoName /\ m.ec_image = NoName /\ m.pd_image = NoName
  THEN Failed("PackError", "NoImageProvided", fsys)
  ELSE PlaceModel(fsys, merge, m)

\* ------------------------------------------------------- run bookkeeping
\* The state of Start, when no run of Start is going on.
NoRun == [pc |-> "none"]

NoCall == [op |-> "none", args |-> <<>>, exc |-> "none", reason |-> "none", ran |-> {}]

Call(op, args, r) ==
  [op |-> op, args |-> args, exc |-> r.exc, reason |-> r.reason, ran |-> r.ran]

\* One call of an operation: its outcome becomes the file system, the
\* call and the file system it started from are remembered.
ApplyWithin(limit, op, args, r) ==
  /\ steps < limit
  /\ steps' = steps + 1
  /\ fs' = r.fs
  /\ pre' = fs
  /\ prev' = last
  /\ last' = Call(op, args, r)
  /\ UNCHANGED run

Apply(op, args, r) == ApplyWithin(MaxSteps, op, args, r)

\* ------------------------------------------------- section-clone runs
\* Blob bytes are all different, so a byte tells where it came from.
Pattern(base, len) == [i \in 1..len |-> base + i]

\* The layouts a blob of the given length can have for one section: the
\* section is not listed, or lies inside the blob.
SectionChoices(name, len) ==
  {<<>>} \cup {<<LayoutLine(name, p[1], p[2])>> :
                 p \in {q \in (0..MaxOff) \X (0..MaxSize) : q[1] + q[2] <= len}}

InitClone ==
  /\ \E dl \in {MaxLen - 1, MaxLen}, sl \in {MaxLen - 1, MaxLen} :
       \E da \in SectionChoices("RW_SECTION_A", dl),
          sa \in SectionChoices("RW_SECTION_A", sl),
          b \in {<<>>, <<LayoutLine("RW_SECTION_B", MaxLen - 2, 1)>>} :
         fs = (IMAGE_MAIN :> File(Pattern(10, dl), 1, da \o b, <<>>, EmptyMap))
           @@ (IMAGE_MAIN_RW :> File(Pattern(20, sl), 2, sa \o b, <<>>, EmptyMap))
  /\ last = NoCall
  /\ prev = NoCall
  /\ pre = fs
  /\ image_files = <<>>
  /\ versions = <<>>
  /\ steps = 0
  /\ run = NoRun

CloneSection ==
  \E dst \in DOMAIN fs, src \in DOMAIN fs,
     section \in {"RW_SECTION_A", "RW_SECTION_B"} :
    /\ Apply("clone_section", <<dst, src, section>>,
             CloneFirmwareSection(fs, dst, src, section))
    /\ UNCHANGED <<image_files, versions>>

NextClone == CloneSection

SpecClone == InitClone /\ [][NextClone]_vars

\* ---------------------------------------------------- preamble-flag runs
MaxFlags == 3     \* largest preamble flags value of an input image

\* What vbutil_firmware can print for an input image: one flags line
\* among other lines, no flags line, or two.
VerifyChoices ==
  {<<VerifyLine("Body size:", <<MaxLen>>), VerifyLine("Preamble flags:", <<f>>)>> :
     f \in 0..MaxFlags}
  \cup {<<VerifyLine("Preamble flags:", <<f>>), VerifyLine("Body size:", <<MaxLen>>)>> :
          f \in 0..MaxFlags}
  \cup {<<VerifyLine("Body size:", <<MaxLen>>)>>,
        <<VerifyLine("Preamble flags:", <<0>>), VerifyLine("Preamble flags:", <<1>>)>>}

InitRw ==
  /\ \E v \in VerifyChoices, m \in 1..2 :
       \/ fs = (IMAGE_MAIN :> File(Pattern(10, MaxLen), m, <<>>, v, EmptyMap))
       \/ \E w \in VerifyChoices :
            fs = (IMAGE_MAIN :> File(Pattern(10, MaxLen), m, <<>>, v, EmptyMap))
              @@ (IMAGE_MAIN_RW :> File(Pattern(20, MaxLen), MaxMtime, <<>>, w, EmptyMap))
  /\ last = NoCall
  /\ prev = NoCall
  /\ pre = fs
  /\ image_files = <<>>
  /\ versions = <<>>
  /\ steps = 0
  /\ run = NoRun

CreateRw ==
  /\ Apply("create_rw_from_ro", <<IMAGE_MAIN, IMAGE_MAIN_RW>>,
           CreateRwFirmware(fs, IMAGE_MAIN, IMAGE_MAIN_RW))
  /\ UNCHANGED <<image_files, versions>>

CheckRw ==
  \E fname \in {IMAGE_MAIN, IMAGE_MAIN_RW} :
    /\ Apply("assert_is_rw", <<fname>>, CheckRwFirmware(fs, fname))
    /\ UNCHANGED <<image_files, versions>>

NextRw == CreateRw \/ CheckRw

SpecRw == InitRw /\ [][NextRw]_vars

\* ---------------------------------------------------- preamble-flag properties
CreateCalled == last.op = "create_rw_from_ro"

\* The flags of the RO blob as they read when create_rw_from_ro was called.
PreRoFlags == GetPreambleFlags(pre, IMAGE_MAIN)

\* C5: create_rw_from_ro on a blob whose flags have bit 0 set produces
\* a blob whose flags have bit 0 clear and on which assert_is_rw
\* succeeds, also when assert_is_rw is the next call of the run.
C5_CreateRwClearsBit0 ==
  /\ (CreateCalled /\ PreRoFlags.exc = "none" /\ Bit0(PreRoFlags.value) = 1) =>
       /\ last.exc = "none"
       /\ IMAGE_MAIN_RW \in DOMAIN fs
       /\ GetPreambleFlags(fs, IMAGE_MAIN_RW).exc = "none"
       /\ Bit0(GetPreambleFlags(fs, IMAGE_MAIN_RW).value) = 0
       /\ CheckRwFirmware(fs, IMAGE_MAIN_RW).exc = "none"
  /\ (/\ last.op = "assert_is_rw" /\ last.args = <<IMAGE_MAIN_RW>>
      /\ prev.op = "create_rw_from_ro" /\ prev.exc = "none") =>
       last.exc = "none"

\* assert_is_rw run on the blob that create_rw_from_ro has just made.
C5_Witness ==
  /\ last.op = "assert_is_rw" /\ last.args = <<IMAGE_MAIN_RW>>
  /\ prev.op = "create_rw_from_ro" /\ prev.exc = "none"
  /\ Bit0(GetPreambleFlags(fs, IMAGE_MAIN).value) = 1

\* C6: create_rw_from_ro on a blob whose flags have bit 0 clear fails
\* with NotReadOnlyFirmware, does not run the re-signing tool and
\* creates or changes no file.
C6_NotRoFails ==
  (CreateCalled /\ PreRoFlags.exc = "none" /\ Bit0(PreRoFlags.value) = 0) =>
    /\ last.exc = "PackError" /\ last.reason = "NotReadOnlyFirmware"
    /\ "resign_firmwarefd.sh" \notin last.ran
    /\ fs = pre

\* A refused create_rw_from_ro, no RW blob existing afterwards.
C6_Witness ==
  /\ CreateCalled /\ PreRoFlags.exc = "none" /\ Bit0(PreRoFlags.value) = 0
  /\ last.reason = "NotReadOnlyFirmware"
  /\ IMAGE_MAIN_RW \notin DOMAIN fs

\* -------------------------------------------------------- EC merge runs
\* A BIOS image with an EC_MAIN_A section at offset 1: the 12-byte
\* header (count, offset, size) and a body.
EcMainImage(base, mtime, count, offset, size, bodylen) ==
  File(<<base>> \o EncodeU32(count) \o EncodeU32(offset) \o EncodeU32(size)
         \o Pattern(base, bodylen),
       mtime, <<LayoutLine("EC_MAIN_A", 1, 12 + bodylen)>>, <<>>, EmptyMap)

\* A BIOS image without EC_MAIN_A, its EC payloads held in the CBFS.
CbfsImage(base, mtime, eclen, pdlen) ==
  File(Pattern(base, MaxLen), mtime, <<>>, <<>>,
       ("ecrw" :> Pattern(base, eclen)) @@ ("pdrw" :> Pattern(base + 5, pdlen)))

\* The BIOS images a run can be given.
SourceChoices(base, mtime) ==
  {EcMainImage(base, mtime, 1, 12, s, MaxBody) : s \in 0..(MaxBody + 1)}
  \cup {EcMainImage(base, mtime, h[1], h[2], 1, MaxBody) :
          h \in {<<2, 12>>, <<1, 268>>, <<0, 0>>}}
  \cup {CbfsImage(base, mtime, MaxBody + 1, 1),
        File(Pattern(base, MaxLen), mtime, <<LayoutLine("EC_MAIN_A", 0, MaxLen)>>,
             <<>>, EmptyMap)}

\* The EC image: long enough for every EC_RW section and a byte after it.
EcImage(layout) == File(Pattern(60, MaxOff + MaxSize + 1), MaxMtime, layout, <<>>, EmptyMap)

InitEc ==
  /\ \E a \in SourceChoices(30, 1), b \in SourceChoices(40, 2),
        l \in SectionChoices("EC_RW", MaxOff + MaxSize + 1) :
       fs = (IMAGE_MAIN :> a) @@ (OTHER_MAIN :> b) @@ (IMAGE_EC :> EcImage(l))
  /\ last = NoCall
  /\ prev = NoCall
  /\ pre = fs
  /\ image_files = <<>>
  /\ versions = <<>>
  /\ steps = 0
  /\ run = NoRun

MergeRwEc ==
  \E rw_fname \in {IMAGE_MAIN, OTHER_MAIN}, cbfs_name \in {"ecrw", "pdrw"} :
    /\ Apply("merge_ec_rw", <<IMAGE_EC, rw_fname, cbfs_name>>,
             MergeRwEcFirmware(fs, IMAGE_EC, rw_fname, cbfs_name))
    /\ UNCHANGED <<image_files, versions>>

NextEc == MergeRwEc

SpecEc == InitEc /\ [][NextEc]_vars

\* -------------------------------------------------- EC merge properties
MergeCalled == last.op = "merge_ec_rw"

MergeDst == last.args[1]

MergeSrc == last.args[2]

\* The call got as far as the merge: the extraction raised nothing.
Extracted ==
  /\ MergeCalled
  /\ last.exc \notin {"TypeError", "struct.error", "RunCommandError"}

PreEcMap == GetFMAP(pre[MergeDst].layout)

\* C7: with a payload longer than the destination's EC_RW section the
\* merge fails with PayloadTooLarge and the destination is unchanged;
\* with a payload that fits it succeeds, the payload's bytes are in the
\* destination from EC_RW.offset on and every other destination byte,
\* the rest of the section included, is as before.
C7_MergePayload ==
  (Extracted /\ "EC_RW" \in DOMAIN PreEcMap) =>
    LET payload == fs[TMP_ECRW].data
        sec == PreEcMap["EC_RW"]
        old == pre[MergeDst].data
        new == fs[MergeDst].data
    IN IF Len(payload) > sec.size
       THEN /\ last.exc = "PackError" /\ last.reason = "PayloadTooLarge"
            /\ fs[MergeDst] = pre[MergeDst]
       ELSE /\ last.exc = "none"
            /\ Len(new) = Len(old)
            /\ \A i \in 1..Len(new) :
                 new[i] = IF sec.offset < i /\ i <= sec.offset + Len(payload)
                          THEN payload[i - sec.offset] ELSE old[i]

\* A merged payload shorter than the section, and one that fills it.
C7_Witness ==
  /\ Extracted /\ "EC_RW" \in DOMAIN PreEcMap /\ last.exc = "none"
  /\ Len(fs[TMP_ECRW].data) = PreEcMap["EC_RW"].size
  /\ Len(fs[TMP_ECRW].data) > 0
  /\ fs[MergeDst].data # pre[MergeDst].data

\* The EC_MAIN_A section of the source image, and its header fields.
PreEcMainA ==
  LET sec == GetFMAP(pre[MergeSrc].layout)["EC_MAIN_A"]
  IN Slice(pre[MergeSrc].data, sec.offset, sec.offset + sec.size)

HasHeader ==
  /\ MergeCalled
  /\ "EC_MAIN_A" \in DOMAIN GetFMAP(pre[MergeSrc].layout)
  /\ Len(PreEcMainA) >= 12

HeaderCount == DecodeU32(SubSeq(PreEcMainA, 1, 4))

HeaderOffset == DecodeU32(SubSeq(PreEcMainA, 5, 8))

HeaderSize == DecodeU32(SubSeq(PreEcMainA, 9, 12))

\* C8: for a source image whose EC_MAIN_A header is (1, 12, S), S bytes
\* being there after the header, the extracted payload is the S bytes
\* [12, 12+S) of EC_MAIN_A.
C8_PayloadIsBody ==
  (/\ HasHeader /\ HeaderCount = 1 /\ HeaderOffset = 12
   /\ 12 + HeaderSize <= Len(PreEcMainA)) =>
    /\ TMP_ECRW \in DOMAIN fs
    /\ fs[TMP_ECRW].data = Slice(PreEcMainA, 12, 12 + HeaderSize)

\* C9: for an EC_MAIN_A header with count # 1 or offset # 12 the
\* extraction fails with the UnexpectedEcHeader PackError and nothing is
\* merged into the destination.
C9_BadHeaderIsPackError ==
  (HasHeader /\ (HeaderCount # 1 \/ HeaderOffset # 12)) =>
    /\ last.exc = "PackError"
    /\ fs[MergeDst] = pre[MergeDst]

\* -------------------------------------------------------- manifest runs
\* The records a component can get: an image with its firmware ID, an
\* image with the IGNORE marker or no ID, an RW ID without an image.
RecordChoices(name) ==
  IF name = BIOS
  THEN {ImageFile(IMAGE_MAIN, <<71, 46, 57>>), ImageFile(IMAGE_MAIN, IGNORE)}
  ELSE IF name = RwName(BIOS)
  THEN {ImageFile(IMAGE_MAIN_RW, <<71, 46, 56>>)}
  ELSE IF name = EC THEN {ImageFile(IMAGE_EC, <<114, 46, 49>>)}
  ELSE IF name = PD THEN {ImageFile(IMAGE_PD, <<>>)}
  ELSE {ImageFile(NoName, <<114, 46, 50>>)}

InitVer ==
  /\ \E present \in {{IMAGE_MAIN_RW, IMAGE_PD}, {IMAGE_MAIN_RW}} :
       fs = [f \in {IMAGE_MAIN, IMAGE_EC} \cup present |->
               PlainFile(Pattern(IF f = IMAGE_MAIN THEN 10 ELSE 60, MaxLen), 1)]
  /\ last = NoCall
  /\ prev = NoCall
  /\ pre = fs
  /\ image_files = <<>>
  /\ versions = <<>>
  /\ steps = 0
  /\ run = NoRun

\* Steps of a manifest run: the insertions count as steps too.
ManifestSteps == MaxSteps + MaxNames - 1

\* image_files[name] = ImageFile(filename, version), for a new name
SetImageFile ==
  \E name \in DisplayNames \ {image_files[i][1] : i \in 1..Len(image_files)} :
   \E value \in RecordChoices(name) :
    /\ Len(image_files) < MaxNames
    /\ last.op # "write_versions"
    /\ steps < ManifestSteps
    /\ steps' = steps + 1
    /\ image_files' = DictSet(image_files, name, value)
    /\ UNCHANGED <<fs, last, pre, prev, versions, run>>

\* _WriteVersions(image_files); the call remembers where its block starts.
WriteVersionsCall ==
  LET r == WriteVersions(fs, image_files)
  IN /\ last.op # "write_versions"
     /\ ApplyWithin(ManifestSteps, "write_versions", <<Len(versions)>>,
              [exc |-> r.exc, reason |-> "none", fs |-> fs, ran |-> {}])
     /\ versions' = versions \o r.lines
     /\ UNCHANGED image_files

\* The next model starts with image_files = {}.
NextModel ==
  /\ last.op = "write_versions"
  /\ ApplyWithin(ManifestSteps, "next_model", <<>>, Ok(fs))
  /\ image_files' = <<>>
  /\ UNCHANGED versions

NextVer == SetImageFile \/ WriteVersionsCall \/ NextModel

SpecVer == InitVer /\ [][NextVer]_vars

\* --------------------------------------------------- manifest properties
\* The block that the last _WriteVersions call has printed.
Block == SubSeq(versions, last.args[1] + 1, Len(versions))

Orderings(dict) ==
  {[i \in 1..Len(dict) |-> dict[p[i]]] : p \in Permutations(1..Len(dict))}

\* C10: the block printed for a model is the same for every order in
\* which the same component records were inserted, and its lines come
\* in the lexicographic order of the display names.
C10_RenderOrderIndependent ==
  last.op = "write_versions" =>
    /\ \A q \in Orderings(image_files) :
         /\ WriteVersions(fs, q).lines = Block
         /\ WriteVersions(fs, q).exc = last.exc
    /\ \A i \in 2..Len(Block) : \A j \in (i + 1)..Len(Block) :
         ~LexLess(Block[j].name, Block[i].name)

\* A block of three components that were inserted in another order
\* than the one they are printed in.
C10_Witness ==
  /\ last.op = "write_versions" /\ last.exc = "none"
  /\ Len(image_files) = 3
  /\ LexLess(image_files[3][1], image_files[1][1])
  /\ Len(Block) >= 4

\* ------------------------------------------------- version-info runs
InitAdd ==
  /\ \E base \in {10, 60} : fs = (IMAGE_MAIN :> PlainFile(Pattern(base, MaxLen), 1))
  /\ last = NoCall
  /\ prev = NoCall
  /\ pre = fs
  /\ image_files = <<>>
  /\ versions = <<>>
  /\ steps = 0
  /\ run = NoRun

\* _AddVersionInfo(name, fname, version); the call remembers where its
\* lines start.
AddVersionInfoCall ==
  \E name \in {BIOS, RwName(EC)}, fname \in {NoName, IMAGE_MAIN, "missing-file"},
     version \in {<<>>, IGNORE, <<118, 49>>} :
    LET r == AddVersionInfo(fs, name, fname, version)
    IN /\ Apply("add_version_info", <<name, fname, version, Len(versions)>>,
                [exc |-> r.exc, reason |-> "none", fs |-> fs, ran |-> {}])
       /\ versions' = versions \o r.lines
       /\ UNCHANGED image_files

NextAdd == AddVersionInfoCall

SpecAdd == InitAdd /\ [][NextAdd]_vars

\* ----------------------------------------------- version-info properties
\* The lines that the last _AddVersionInfo call has printed.
Added == SubSeq(versions, last.args[4] + 1, Len(versions))

AddedOfKind(kind) == {i \in 1..Len(Added) : Added[i].kind = kind}

\* C11: a completed _AddVersionInfo prints an image line exactly when a
\* filename is given and a version line exactly when the version is
\* neither empty nor the IGNORE marker; each at most once, for the given
\* name, and nothing else.
C11_LinesOfRecord ==
  (last.op = "add_version_info" /\ last.exc = "none") =>
    /\ (AddedOfKind("image") # {}) <=> (last.args[2] # NoName)
    /\ (AddedOfKind("version") # {}) <=> (last.args[3] \notin {<<>>, IGNORE})
    /\ Cardinality(AddedOfKind("image")) <= 1
    /\ Cardinality(AddedOfKind("version")) <= 1
    /\ \A i \in 1..Len(Added) :
         /\ Added[i].kind \in {"image", "version"}
         /\ Added[i].name = last.args[1]
         /\ Added[i].kind = "version" => Added[i].value = last.args[3]

\* A record with a file and the IGNORE marker: one image line, no version line.
C11_Witness ==
  /\ last.op = "add_version_info" /\ last.exc = "none"
  /\ last.args[2] = IMAGE_MAIN /\ last.args[3] = IGNORE
  /\ Len(Added) = 1 /\ Added[1].kind = "image"
  /\ Len(versions) > 1

\* ------------------------------------------------------------ Start runs
\* The files a run is given, outside the run's temporary directories.
IN_BIOS == "in/bios.bin"

IN_BIOS_RW == "in/bios_rw.bin"

IN_EC == "in/ec.bin"

IN_PD == "in/pd.bin"

InputPaths == {IN_BIOS, IN_BIOS_RW, IN_EC, IN_PD}

\* The contents of an ID section: 'G.9', '', 'G9 ' and 'R.2', NUL padded.
FridChoices == {<<71, 46, 57, 0>>, <<0, 0, 0, 0>>, <<71, 57, 32, 0>>}

RwFridChoices == {<<82, 46, 50, 0>>, <<0, 0, 0, 0>>}

FlagsLine(flags) == <<VerifyLine("Preamble flags:", <<flags>>)>>

\* A main image: ID section (listed or not), RW sections A and B at
\* offsets 4 and b_offset, a byte after them, the EC payloads in its CBFS.
MainImage(base, mtime, frid, listed, b_offset, flags) ==
  File(frid \o <<base + 1, base + 2, base + 3>>, mtime,
       (IF listed THEN <<LayoutLine("RO_FRID", 0, 4)>> ELSE <<>>)
         \o <<LayoutLine("RW_SECTION_A", 4, 1), LayoutLine("RW_SECTION_B", b_offset, 1)>>,
       FlagsLine(flags),
       ("ecrw" :> <<base + 5>>) @@ ("pdrw" :> <<base + 6>>))

\* An EC or PD image: RO ID, EC_RW section of two bytes, RW ID.
ControllerImage(base, mtime, frid) ==
  File(frid \o <<base + 1, base + 2, base + 3, 0>>, mtime,
       <<LayoutLine("RO_FRID", 0, 4), LayoutLine("EC_RW", 4, 2),
         LayoutLine("RW_FWID", 6, 2)>>,
       <<>>, EmptyMap)

BiosChoices ==
  {MainImage(10, 1, frid, TRUE, 5, flags) : frid \in FridChoices, flags \in 0..1}
  \cup {MainImage(10, 1, <<71, 46, 57, 0>>, FALSE, 5, flags) : flags \in 0..1}

BiosRwChoices ==
  {MainImage(20, 2, frid, TRUE, 5, flags) : frid \in RwFridChoices, flags \in 0..1}
  \cup {MainImage(20, 2, <<82, 46, 50, 0>>, TRUE, 6, 0)}

EcChoices == {ControllerImage(60, 3, frid) : frid \in {<<69, 46, 49, 0>>, <<0, 0, 0, 0>>}}

PdChoices == {ControllerImage(70, 3, frid) : frid \in {<<80, 46, 49, 0>>, <<0, 0, 0, 0>>}}

\* The files given: a path holds the image chosen for it, if any.
Inputs(bios, rw, ec, pd) ==
  [p \in {q \in InputPaths : \/ q = IN_BIOS /\ bios # <<>>
                             \/ q = IN_BIOS_RW /\ rw # <<>>
                             \/ q = IN_EC /\ ec # <<>>
                             \/ q = IN_PD /\ pd # <<>>} |->
     CASE p = IN_BIOS -> bios[1] [] p = IN_BIOS_RW -> rw[1]
       [] p = IN_EC -> ec[1] [] p = IN_PD -> pd[1]]

Optional(choices) == {<<>>} \cup {<<c>> : c \in choices}

\* The image arguments of a model for the files given.
Given(fsys, path) == IF path \in DOMAIN fsys THEN path ELSE NoName

\* What is known of a model before it is processed: its images (for a
\* unified build, what _ExtractFile returns), what the configuration
\* holds for it and what the checks of the script and the tools find.
Model(model, fsys, create, script_exists, tools_found, extras) ==
  [model |-> model, bios_image |-> Given(fsys, IN_BIOS),
   bios_rw_image |-> Given(fsys, IN_BIOS_RW), ec_image |-> Given(fsys, IN_EC),
   pd_image |-> Given(fsys, IN_PD), create_bios_rw_image |-> create,
   script_exists |-> script_exists, tools_found |-> tools_found,
   extras |-> extras]

\* The parsed arguments and what the checks before the build find.
Args(unibuild, merge, create, ec_version) ==
  [shar |-> TRUE, stub_file |-> TRUE, output |-> TRUE, flashrom |-> TRUE,
   models |-> unibuild, local |-> FALSE, image_args |-> "none",
   create_bios_rw_image |-> create, stable_main_version |-> <<>>,
   stable_ec_version |-> <<>>, stable_pd_version |-> <<>>,
   ec_version |-> ec_version, config |-> unibuild,
   merge_bios_rw_image |-> merge]

NewRun(args, models) ==
  [pc |-> "start", args |-> args, models |-> models, idx |-> 1,
   exc |-> "none", reason |-> "none", tmp_dirs |-> <<>>, dirs |-> {},
   processed |-> <<>>,
   outputs |-> <<>>, trace |-> <<>>, replace |-> <<>>, script |-> <<>>]

StartOf(fsys, r) ==
  /\ fs = fsys
  /\ run = r
  /\ last = NoCall
  /\ pre = fsys
  /\ prev = NoCall
  /\ image_files = <<>>
  /\ versions = <<>>
  /\ steps = 0

\* A build of one model from the command line's images.
InitSingle ==
  \E bios \in Optional(BiosChoices), rw \in Optional(BiosRwChoices),
     ec \in Optional(EcChoices), pd \in Optional(PdChoices),
     create \in BOOLEAN, merge \in BOOLEAN, ec_version \in {<<>>, <<68>>},
     extras \in {"none", "extra-file"} :
    LET fsys == Inputs(bios, rw, ec, pd)
    IN StartOf(fsys, NewRun(Args(FALSE, merge, create, ec_version),
                           <<Model("", fsys, create, TRUE, TRUE, extras)>>))

\* A build whose script, tools or extra files are not as they should be.
InitEnv ==
  \E bios \in Optional({MainImage(10, 1, <<71, 46, 57, 0>>, TRUE, 5, 1)}),
     env \in {<<FALSE, TRUE, "none">>, <<TRUE, FALSE, "none">>,
              <<FALSE, FALSE, "none">>, <<TRUE, TRUE, "empty folder">>} :
    LET fsys == Inputs(bios, <<>>, <<>>, <<>>)
    IN StartOf(fsys, NewRun(Args(FALSE, TRUE, FALSE, <<>>),
                           <<Model("", fsys, FALSE, env[1], env[2], env[3])>>))

\* The models of a unified build, one after the other.
ModelList == <<"a", "b">>

\* A unified build: each model has of the files given what its
\* configuration names.
ModelChoices(model, fsys) ==
  LET all == Model(model, fsys, FALSE, TRUE, TRUE, "none")
  IN {all,
      [all EXCEPT !.bios_rw_image = NoName],
      [all EXCEPT !.bios_rw_image = NoName, !.ec_image = NoName],
      [all EXCEPT !.bios_rw_image = NoName, !.create_bios_rw_image = TRUE],
      [all EXCEPT !.bios_image = NoName, !.bios_rw_image = NoName],
      [all EXCEPT !.bios_image = NoName, !.bios_rw_image = NoName,
                  !.ec_image = NoName],
      [all EXCEPT !.script_exists = FALSE],
      [all EXCEPT !.extras = "empty folder"]}

InitUnibuild ==
  \E rw \in {MainImage(20, 2, <<82, 46, 50, 0>>, TRUE, b, f) :
               b \in 5..6, f \in 0..1},
     merge \in BOOLEAN :
    LET fsys == Inputs(<<MainImage(10, 1, <<71, 46, 57, 0>>, TRUE, 5, 1)>>, <<rw>>,
                       <<ControllerImage(60, 3, <<69, 46, 49, 0>>)>>, <<>>)
    IN \E ma \in ModelChoices(ModelList[1], fsys),
          mb \in ModelChoices(ModelList[2], fsys) :
         StartOf(fsys, NewRun(Args(TRUE, merge, FALSE, <<>>), <<ma, mb>>))

\* A run that one of the checks made before the build stops.
InitChecks ==
  LET fsys == Inputs(<<MainImage(10, 1, <<71, 46, 57, 0>>, TRUE, 5, 1)>>, <<>>, <<>>, <<>>)
      single == Args(FALSE, TRUE, FALSE, <<>>)
      unified == Args(TRUE, TRUE, FALSE, <<>>)
  IN \E args \in {[single EXCEPT !.shar = FALSE],
                   [single EXCEPT !.stub_file = FALSE],
                   [single EXCEPT !.output = FALSE],
                   [single EXCEPT !.flashrom = FALSE],
                   [unified EXCEPT !.image_args = "some"],
                   [unified EXCEPT !.local = TRUE, !.image_args = "some"],
                   [unified EXCEPT !.local = TRUE, !.image_args = "all"],
                   [unified EXCEPT !.create_bios_rw_image = TRUE],
                   [unified EXCEPT !.stable_main_version = <<83>>],
                   [unified EXCEPT !.ec_version = <<68>>],
                   [unified EXCEPT !.config = FALSE]} :
       StartOf(fsys, NewRun(args,
                 IF args.models
                 THEN <<Model("a", fsys, FALSE, TRUE, TRUE, "none"),
                        Model("b", fsys, FALSE, TRUE, TRUE, "none")>>
                 ELSE <<Model("", fsys, FALSE, TRUE, TRUE, "none")>>))

InitStart == InitSingle \/ InitEnv \/ InitUnibuild \/ InitChecks

\* One step of Start: the call made and the file system it started from
\* are remembered.
Step(op, args, exc, reason, ran, fsys) ==
  /\ steps' = steps + 1
  /\ fs' = fsys
  /\ pre' = fs
  /\ prev' = last
  /\ last' = [op |-> op, args |-> args, exc |-> exc, reason |-> reason, ran |-> ran]

\* The first check of Start that fails, "none" if all pass. The first
\* two are made before the try statement, the others inside it.
StartCheck(args) ==
  CASE ~args.shar -> "shar"
    [] args.shar /\ ~args.stub_file -> "Cannot find required file"
    [] OTHER ->
       IF ~args.output THEN "Missing output file"
       ELSE IF ~args.flashrom THEN "Cannot find tool"
       ELSE IF ~args.models THEN "none"
       ELSE IF args.image_args # "none" /\ ~args.local
       THEN "Cannot use -b/-p/-e with -m"
       ELSE IF args.local /\ args.image_args # "all"
       THEN "Must provide -b, -e, -p with -l"
       ELSE IF args.create_bios_rw_image
       THEN "Cannot use --create_bios_rw_image with -m"
       ELSE IF args.stable_main_version # <<>> \/ args.stable_ec_version # <<>>
               \/ args.stable_pd_version # <<>>
       THEN "Cannot set stable versions with -m"
       ELSE IF args.ec_version # <<>> THEN "Cannot use --ec_version with -m"
       ELSE IF ~args.config THEN "Missing master configuration file"
       ELSE "none"

\* The directories _CreateTmpDir makes: self._basedir, then self._tmpdir.
TmpDirs == <<"basedir", "tmpdir">>

FlashromLine == TextLine(<<>>, "flashrom", 0, <<>>, "flashrom", <<>>)

\* Start up to the first _ProcessModel call.
StartBegin ==
  /\ run.pc = "start"
  /\ LET failed == StartCheck(run.args)
         in_try == failed \notin {"shar", "Cannot find required file"}
         dirs == in_try /\ failed # "Missing output file"
     IN /\ Step("Start", <<>>, IF failed = "none" THEN "none" ELSE "PackError",
                 failed, {}, fs)
        /\ run' = [run EXCEPT
                     !.pc = IF failed = "none" THEN "models"
                            ELSE IF in_try THEN "finally" ELSE "done",
                     !.exc = IF failed = "none" THEN "none" ELSE "PackError",
                     !.reason = failed,
                     !.tmp_dirs = IF dirs THEN @ \o TmpDirs ELSE @,
                     !.dirs = IF dirs THEN @ \cup {TmpDirs[i] : i \in 1..Len(TmpDirs)}
                              ELSE @]
        /\ versions' = IF dirs /\ failed # "Cannot find tool"
                       THEN versions \o <<FlashromLine>> ELSE versions
  /\ UNCHANGED image_files

\* The arguments of the _ProcessModel call for the model at run.idx.
CallOf(r) ==
  LET m == r.models[r.idx]
  IN [model |-> m.model, bios_image |-> m.bios_image,
      bios_rw_image |-> m.bios_rw_image, ec_image |-> m.ec_image,
      pd_image |-> m.pd_image,
      default_ec_version |-> IF r.args.models THEN <<>> ELSE r.args.ec_version,
      create_bios_rw_image |->
        IF r.args.models THEN m.create_bios_rw_image /\ ~r.args.local
        ELSE r.args.create_bios_rw_image,
      script_exists |-> m.script_exists, tools_found |-> m.tools_found,
      extras |-> m.extras]

Output(what, model) == [what |-> what, model |-> model]

\* (bug variant: a failure of the last model is passed over)
AfterModel_LastIgnored(exc, idx, count) ==
  IF idx = count THEN "output"
  ELSE IF exc # "none" THEN "finally"
  ELSE "models"

\* Where Start goes on after a model: an exception leaves the loop and
\* the try statement, the last model is followed by the final output.
AfterModel(exc, idx, count) ==
  IF exc # "none" THEN "finally"
  ELSE IF idx = count THEN "output"
  ELSE "models"

\* One model: _ProcessModel and, in a unified build, the model's
\* setvars.sh written from its replacement values. An exception leaves
\* the loop and the try statement.
ProcessNextModel ==
  /\ run.pc = "models"
  /\ \E m \in {CallOf(run)} :
     \E r \in {ProcessModel(fs, run.args.merge_bios_rw_image, m)} :
     \E d \in {IF r.exc = "none" /\ run.args.models
               THEN GetReplaceDict(r.image_files, <<>>, <<>>, <<>>) ELSE NoDict} :
       LET exc == IF r.exc # "none" THEN r.exc ELSE d.exc
           reason == IF r.exc # "none" THEN r.reason ELSE d.reason
       IN /\ Step("_ProcessModel", <<m, run.args.merge_bios_rw_image, Len(versions)>>,
                   exc, reason, r.ran, r.fs)
          /\ image_files' = IF r.exc = "none" THEN r.image_files ELSE image_files
          /\ versions' = versions \o r.lines
          /\ run' = [run EXCEPT
                       !.pc = AfterModel(exc, run.idx, Len(run.models)),
                       !.idx = IF exc = "none" THEN @ + 1 ELSE @,
                       !.exc = exc, !.reason = reason,
                       !.processed = Append(@, [model |-> m.model, exc |-> exc]),
                       !.trace = r.trace,
                       !.replace = IF run.args.models /\ exc = "none" THEN d.map ELSE @,
                       !.outputs = IF run.args.models /\ exc = "none"
                                   THEN Append(@, Output("setvars.sh", m.model))
                                   ELSE @]

Unused == <<60, 117, 110, 117, 115, 101, 100, 62>>   \* '<unused ...>'

\* The replacement values as _WriteUpdateScript puts them in the script.
ScriptValues(map, unibuild) ==
  IF unibuild THEN [k \in DOMAIN map |-> Unused] ELSE map

\* After the models: the update script, the VERSION file and the
\* shellball, in this order.
WriteOutput ==
  /\ run.pc = "output"
  /\ \E d \in {GetReplaceDict(image_files, run.args.stable_main_version,
                                run.args.stable_ec_version,
                                run.args.stable_pd_version)} :
        /\ Step("_WriteUpdateScript", <<>>, d.exc, d.reason, {}, fs)
        /\ run' = [run EXCEPT
                     !.pc = "finally", !.exc = d.exc, !.reason = d.reason,
                     !.replace = IF d.exc = "none" THEN d.map ELSE @,
                     !.script = IF d.exc = "none"
                                THEN ScriptValues(d.map, run.args.models) ELSE @,
                     !.outputs = IF d.exc = "none"
                                 THEN @ \o <<Output("update script", ""),
                                             Output("VERSION", ""),
                                             Output("shellball", "")>>
                                 ELSE @]
        /\ versions' = IF d.exc = "none" THEN versions \o <<BlankLine>> ELSE versions
  /\ UNCHANGED image_files

\* The files of self._tmpdir: the dumped sections and the EC RW payload.
InTmpdir(p) ==
  p \in {TMP_ECRW, TMP_EC_MAIN_A, "tmp/RO_FRID", "tmp/RW_FWID", "tmp/RW_SECTION_A",
         "tmp/RW_SECTION_B", "tmp/EC_RW"}

\* (bug variant: only the first directory, self._basedir, is removed)
RemoveTmpdirs_FirstOnly(fsys) ==
  [p \in {q \in DOMAIN fsys : q \in InputPaths \/ InTmpdir(q)} |-> fsys[p]]

\* _RemoveTmpdirs: what the run put in its directories is removed.
RemoveTmpdirs(fsys) == [p \in DOMAIN fsys \cap InputPaths |-> fsys[p]]

\* finally: if remove_tmpdirs: self._RemoveTmpdirs()
StartFinally ==
  /\ run.pc = "finally"
  /\ Step("_RemoveTmpdirs", <<>>, run.exc, run.reason, {},
          IF run.tmp_dirs # <<>> THEN RemoveTmpdirs(fs) ELSE fs)
  /\ run' = [run EXCEPT !.pc = "done",
                        !.dirs = @ \ {run.tmp_dirs[i] : i \in 1..Len(run.tmp_dirs)},
                        !.tmp_dirs = <<>>]
  /\ UNCHANGED <<image_files, versions>>

NextStart == StartBegin \/ ProcessNextModel \/ WriteOutput \/ StartFinally

SpecStart == InitStart /\ [][NextStart]_vars

\* ---------------------------------------------------------- splice runs
\* The steps of a merging build, called one at a time on the files of one
\* model: the inputs are copied to the artifacts, sections of the RW image
\* are cloned into the BIOS artifact, the EC payloads are merged, or
\* _CopyFirmwareFiles does all of it.
InitSplice ==
  \E bios \in {MainImage(10, 1, <<71, 46, 57, 0>>, TRUE, 5, flags) : flags \in 0..1},
     rw \in BiosRwChoices, ec \in Optional(EcChoices), pd \in Optional(PdChoices) :
    StartOf(Inputs(<<bios>>, <<rw>>, ec, pd), NoRun)

\* The artifact an input is copied to.
ArtifactOf(input) ==
  CASE input = IN_BIOS -> IMAGE_MAIN [] input = IN_BIOS_RW -> IMAGE_MAIN_RW
    [] input = IN_EC -> IMAGE_EC [] input = IN_PD -> IMAGE_PD

SpliceCopy ==
  \E input \in (DOMAIN fs \cap InputPaths) \ {IN_BIOS_RW} :
    /\ ArtifactOf(input) \notin DOMAIN fs
    /\ Apply("copy2", <<input, ArtifactOf(input)>>, Copy2(fs, input, ArtifactOf(input)))
    /\ UNCHANGED <<image_files, versions>>

SpliceClone ==
  \E section \in {"RW_SECTION_A", "RW_SECTION_B"} :
    /\ IMAGE_MAIN \in DOMAIN fs
    /\ \E r \in {CloneFirmwareSection(fs, IMAGE_MAIN, IN_BIOS_RW, section)} :
         Apply("clone_section", <<IMAGE_MAIN, IN_BIOS_RW, section>>, r)
    /\ UNCHANGED <<image_files, versions>>

SpliceMerge ==
  /\ IMAGE_MAIN \in DOMAIN fs
  /\ \E r \in {MergeRwFirmware(fs, IMAGE_MAIN, IN_BIOS_RW)} :
       Apply("_MergeRwFirmware", <<IMAGE_MAIN, IN_BIOS_RW>>, r)
  /\ UNCHANGED <<image_files, versions>>

SpliceEc ==
  \E c \in {<<IMAGE_EC, "ecrw">>, <<IMAGE_PD, "pdrw">>} :
    /\ {IMAGE_MAIN, c[1]} \subseteq DOMAIN fs
    /\ \E r \in {MergeRwEcFirmware(fs, c[1], IMAGE_MAIN, c[2])} :
         Apply("merge_ec_rw", <<c[1], IMAGE_MAIN, c[2]>>, r)
    /\ UNCHANGED <<image_files, versions>>

\* _CopyFirmwareFiles for the files given, merging asked for.
SpliceBuild ==
  /\ DOMAIN fs \subseteq InputPaths
  /\ \E r \in {CopyFirmwareFiles(fs,
                  [bios_image |-> IN_BIOS, bios_rw_image |-> IN_BIOS_RW,
                   ec_image |-> Given(fs, IN_EC), pd_image |-> Given(fs, IN_PD),
                   default_ec_version |-> <<>>, create_bios_rw_image |-> FALSE,
                   merge_bios_rw_image |-> TRUE,
                   image_main |-> IMAGE_MAIN, image_main_rw |-> IMAGE_MAIN_RW,
                   image_ec |-> IMAGE_EC, image_pd |-> IMAGE_PD])} :
       /\ Apply("_CopyFirmwareFiles", <<>>, r)
       /\ image_files' = r.image_files
  /\ UNCHANGED versions

NextSplice == SpliceCopy \/ SpliceClone \/ SpliceMerge \/ SpliceEc \/ SpliceBuild

SpecSplice == InitSplice /\ [][NextSplice]_vars

\* ------------------------------------------------------------- SAFT runs
None == "None"

\* An entry of the state sequence: the expected boot vector, the action
\* and the sections the action is called for, one call per section ('a'
\* is <<"a">>, ('a', 'b') is <<"a", "b">>, no parameter is <<>>).
Entry(vector, action, param) == [vector |-> vector, action |-> action, param |-> param]

TEST_STATE_SEQUENCE ==
  <<Entry("1:1:0:0:3", "set_try_fw_b", <<>>),
    Entry("1:2:0:0:3", None, <<>>),
    Entry("1:1:0:0:3", "corrupt_firmware", <<"a">>),
    Entry("1:2:0:0:3", "restore_firmware", <<"a">>),
    Entry("1:1:0:0:3", "corrupt_firmware", <<"a", "b">>),
    Entry("5:0:0:1:3", "restore_firmware", <<"a", "b">>),
    Entry("1:1:0:0:3", "corrupt_kernel", <<"a">>),
    Entry("1:1:0:0:5", "restore_kernel", <<"a">>),
    Entry("1:1:0:0:3", "revert_firmware", <<>>),
    Entry("1:1:0:0:3", None, <<>>)>>

\* '%d' % step
RECURSIVE FormatInt(_)
FormatInt(n) ==
  IF n < 10 THEN <<48 + n>> ELSE FormatInt(n \div 10) \o <<48 + (n % 10)>>

\* int(text) for a string of decimal digits
RECURSIVE ParseInt(_)
ParseInt(text) ==
  IF Len(text) = 1 THEN text[1] - 48
  ELSE 10 * ParseInt(SubSeq(text, 1, Len(text) - 1)) + (text[Len(text)] - 48)

\* A file of the state directory that is not there.
NoFile == <<-1>>

\* The state kept over reboots (the state directory with its step file and
\* the two FWID files, the upstart scripts) and, for the invocation that
\* runs, the exception raised, the calls made and the actions performed.
init_fw_test(fwid) ==
  [state_dir |-> TRUE, step_file |-> FormatInt(0), fwid_bak |-> <<fwid>>,
   fwid_new |-> NoFile, upstart |-> TRUE, exc |-> "none", reason |-> "none",
   trace |-> <<>>, performed |-> <<>>]

Called(s, function) == [s EXCEPT !.trace = Append(@, function)]

\* sys.exit(1) after the message was logged
Exit(s, message) == [s EXCEPT !.exc = "SystemExit", !.reason = message]

get_step(s) == ParseInt(Strip(s.step_file))

\* (bug variant: the step after the next one is stored)
set_step_Skip(s, step) ==
  IF ~s.state_dir
  THEN [Called(s, "_set_step") EXCEPT !.exc = "IOError", !.reason = "fw_test_state"]
  ELSE [Called(s, "_set_step") EXCEPT !.step_file = FormatInt(step + 1)]

\* open(step_file, 'w').write('%d' % step): fails when the state directory
\* is not there.
set_step(s, step) ==
  IF ~s.state_dir
  THEN [Called(s, "_set_step") EXCEPT !.exc = "IOError", !.reason = "fw_test_state"]
  ELSE [Called(s, "_set_step") EXCEPT !.step_file = FormatInt(step)]

\* old_fwid == now_fwid, old_fwid read from a file of the state directory
verify_fw_id(compare_to_file, now_fwid) == compare_to_file = <<now_fwid>>

\* rmtree of the state directory: every file kept in it is gone.
shut_down(s) ==
  [Called(s, "shut_down") EXCEPT !.state_dir = FALSE, !.step_file = NoFile,
                                 !.fwid_bak = NoFile, !.fwid_new = NoFile]

finish_saft(s, fwid) ==
  IF ~verify_fw_id(s.fwid_bak, fwid)
  THEN Exit(Called(s, "finish_saft"), "Failed to restore to original firmware")
  ELSE Called(shut_down([Called(s, "finish_saft") EXCEPT !.upstart = FALSE]), "reboot")

\* The calls the decorated action makes: one per section of a tuple.
Perform(s, t) ==
  [s EXCEPT !.performed =
     IF t.param = <<>> THEN <<[action |-> t.action, section |-> None]>>
     ELSE [i \in 1..Len(t.param) |-> [action |-> t.action, section |-> t.param[i]]]]

\* One invocation after a reboot, the machine having come up with the
\* given boot vector and FWID. The reboot finish_saft asks for may end the
\* process before finish_saft's caller goes on, or not (survives).
next_step(s, boot_vector, fwid, survives) ==
  LET this_step == get_step(s)
      t == TEST_STATE_SEQUENCE[this_step + 1]
      last_step == this_step = Len(TEST_STATE_SEQUENCE) - 1
      copied == IF this_step = 0 THEN [s EXCEPT !.fwid_new = <<fwid>>] ELSE s
  IN IF this_step = 0 /\ verify_fw_id(copied.fwid_bak, fwid)
     THEN Exit(copied, "New firmware - old FWID")
     ELSE IF boot_vector # t.vector THEN Exit(copied, "Wrong boot vector")
     ELSE With(IF last_step THEN finish_saft(copied, fwid) ELSE copied, LAMBDA f :
       IF f.exc # "none" \/ (last_step /\ ~survives) THEN f
       ELSE IF t.action # None /\ ~verify_fw_id(f.fwid_new, fwid)
       THEN Exit(f, "Wrong FWID value")
       ELSE With(set_step(IF t.action # None THEN Perform(f, t) ELSE f, this_step + 1),
                 LAMBDA stored :
              IF stored.exc # "none" THEN stored ELSE Called(stored, "reboot")))

MaxCycles == 1    \* restarts by hand of a machine left halted by a failure

\* What the machine can come up with.
BootVectors == {TEST_STATE_SEQUENCE[i].vector : i \in 1..Len(TEST_STATE_SEQUENCE)}

FWIDs == {"old", "new", "other"}

\* init_fw_test has run, the new image was written and the machine
\* restarted.
InitSaft ==
  \E fwid \in FWIDs :
    StartOf(EmptyMap, [pc |-> "boot", cycles |-> 0, saft |-> init_fw_test(fwid)])

\* The upstart script runs the program with --next_step.
NextStep ==
  /\ run.pc = "boot"
  /\ \E boot_vector \in BootVectors, fwid \in FWIDs, survives \in BOOLEAN :
     \E r \in {next_step([run.saft EXCEPT !.trace = <<>>, !.performed = <<>>],
                         boot_vector, fwid, survives)} :
       /\ Step("next_step", <<run.saft, boot_vector, fwid>>, r.exc, r.reason, {}, fs)
       /\ run' = [run EXCEPT !.saft = r,
                             !.pc = IF r.exc = "SystemExit" THEN "halted"
                                    ELSE IF r.state_dir THEN "boot" ELSE "done"]
  /\ UNCHANGED <<image_files, versions>>

\* A halted machine is restarted by hand: the upstart script is still there.
PowerCycle ==
  /\ run.pc = "halted" /\ run.cycles < MaxCycles
  /\ Step("power cycle", <<>>, "none", "none", {}, fs)
  /\ run' = [run EXCEPT !.pc = "boot", !.cycles = @ + 1,
                        !.saft = [@ EXCEPT !.exc = "none", !.reason = "none"]]
  /\ UNCHANGED <<image_files, versions>>

NextSaft == NextStep \/ PowerCycle

SpecSaft == InitSaft /\ [][NextSaft]_vars

\* -------------------------------------------------- flashrom image runs
DELTA == 1

fv_sections ==
  [a |-> [sig_name |-> "VBOOTA", body_name |-> "FVMAIN"],
   b |-> [sig_name |-> "VBOOTB", body_name |-> "FVMAINB"]]

\* base_image[pos[0] : pos[1] + 1], pos the first and the last offset of
\* the section in bios_layout
get_section(bios_layout, base_image, section_name) ==
  LET pos == bios_layout[section_name]
  IN IF pos[1] >= pos[2] \/ pos[2] >= Len(base_image)
     THEN [exc |-> "TestError", data |-> <<>>]
     ELSE [exc |-> "none", data |-> Slice(base_image, pos[1], pos[2] + 1)]

\* base_image[0 : pos[0]] + data + base_image[pos[1] + 1 :]
put_section(bios_layout, base_image, section_name, data) ==
  LET pos == bios_layout[section_name]
  IN IF pos[1] >= pos[2] \/ pos[2] >= Len(base_image)
     THEN [exc |-> "TestError", image |-> base_image]
     ELSE IF Len(data) # pos[2] - pos[1] + 1
     THEN [exc |-> "TestError", image |-> base_image]
     ELSE [exc |-> "none",
           image |-> Slice(base_image, 0, pos[1]) \o data
                       \o Slice(base_image, pos[2] + 1, Len(base_image))]

\* (bug variant: the first byte of the body is the one modified)
modify_section_FirstByte(h, section, delta) ==
  IF h.image = <<>> THEN [exc |-> "FlashromHandlerError", image |-> h.image]
  ELSE IF section \notin DOMAIN fv_sections
  THEN [exc |-> "FlashromHandlerError", image |-> h.image]
  ELSE LET subsection_name == fv_sections[section].body_name
           body == get_section(h.bios_layout, h.image, subsection_name)
       IN IF body.exc # "none" THEN [exc |-> body.exc, image |-> h.image]
          ELSE LET index == 0
                   body_list == [body.data EXCEPT ![index + 1] = (@ + delta) % 256]
               IN put_section(h.bios_layout, h.image, subsection_name, body_list)

\* _modify_section: delta is added, modulo 0x100, to the byte of the body
\* at index len(body) / 20; h is the handler (its image and the layout its
\* flashrom utility holds).
modify_section(h, section, delta) ==
  IF h.image = <<>> THEN [exc |-> "FlashromHandlerError", image |-> h.image]
  ELSE IF section \notin DOMAIN fv_sections
  THEN [exc |-> "FlashromHandlerError", image |-> h.image]
  ELSE LET subsection_name == fv_sections[section].body_name
           body == get_section(h.bios_layout, h.image, subsection_name)
       IN IF body.exc # "none" THEN [exc |-> body.exc, image |-> h.image]
          ELSE LET index == Len(body.data) \div 20
                   body_list == [body.data EXCEPT ![index + 1] = (@ + delta) % 256]
               IN put_section(h.bios_layout, h.image, subsection_name, body_list)

corrupt_section(h, section) == modify_section(h, section, DELTA)

restore_section(h, section) == modify_section(h, section, -DELTA)

MaxFvBody == 21   \* longest firmware body of an image

\* The bytes the image can have where a body is modified.
TargetBytes == {0, 1, 254, 255}

\* Key block A, body A, key block B, body B and a last byte, one after the
\* other; key blocks are two bytes long.
LayoutOf(la, lb) ==
  [VBOOTA |-> <<0, 1>>, FVMAIN |-> <<2, la + 1>>, VBOOTB |-> <<la + 2, la + 3>>,
   FVMAINB |-> <<la + 4, la + lb + 3>>]

\* An image of distinct neighbouring bytes, ta and tb where the bodies are
\* modified.
ImageOf(la, lb, ta, tb) ==
  [i \in 1..(la + lb + 5) |->
     IF i - 1 = 2 + (la \div 20) THEN ta
     ELSE IF i - 1 = la + 4 + (lb \div 20) THEN tb
     ELSE (7 * i + 3) % 256]

\* new_image has read an image whose sections it could all get.
InitFlash ==
  \E la \in {2, MaxFvBody - 1}, lb \in {3, MaxFvBody}, ta \in TargetBytes,
     tb \in TargetBytes :
    StartOf(EmptyMap, [pc |-> "flash", image |-> ImageOf(la, lb, ta, tb),
                       bios_layout |-> LayoutOf(la, lb),
                       before |-> <<>>, before2 |-> <<>>])

SectionArgs == {"a", "b", "c"}

CorruptSection ==
  /\ run.pc = "flash" /\ steps < MaxSteps
  /\ \E section \in SectionArgs : \E r \in {corrupt_section(run, section)} :
       /\ Step("corrupt_section", <<section>>, r.exc, "none", {}, fs)
       /\ run' = [run EXCEPT !.image = r.image, !.before = run.image,
                             !.before2 = run.before]
  /\ UNCHANGED <<image_files, versions>>

RestoreSection ==
  /\ run.pc = "flash" /\ steps < MaxSteps
  /\ \E section \in SectionArgs : \E r \in {restore_section(run, section)} :
       /\ Step("restore_section", <<section>>, r.exc, "none", {}, fs)
       /\ run' = [run EXCEPT !.image = r.image, !.before = run.image,
                             !.before2 = run.before]
  /\ UNCHANGED <<image_files, versions>>

NextFlash == CorruptSection \/ RestoreSection

SpecFlash == InitFlash /\ [][NextFlash]_vars

\* ------------------------------------------------------- layout checks
\* [layout[section] for section in layout]
RECURSIVE Values(_)
Values(layout) ==
  IF DOMAIN layout = {} THEN <<>>
  ELSE LET section == CHOOSE n \in DOMAIN layout : TRUE
       IN <<layout[section]>>
            \o Values([n \in DOMAIN layout \ {section} |-> layout[n]])

\* The loop over the sorted ranges: the error raised, and base after it.
RECURSIVE Scan(_, _)
Scan(ost, base) ==
  IF ost = <<>> THEN [exc |-> "none", base |-> base]
  ELSE LET section_base == ost[1][1]
           section_end == ost[1][2]
       IN IF section_base < base \/ section_end < section_base
          THEN [exc |-> "TestError", base |-> base]
          ELSE Scan(Tail(ost), section_end)

\* The exception check_layout raises, "none" if it returns.
check_layout(layout, file_size) ==
  With(Scan(Sorted(Values(layout)), 0), LAMBDA scanned :
    IF scanned.exc # "none" THEN scanned.exc
    ELSE IF scanned.base > file_size THEN "TestError"
    ELSE "none")

MaxEnd == 4    \* largest byte offset in a layout

SectionNames == {"VBOOTA", "FVMAIN", "VBOOTB"}

\* First and last offset of a section of at least one byte.
Ranges == {r \in (0..MaxEnd) \X (0..MaxEnd) : r[1] <= r[2]}

\* A layout of get_layout and the size of the file it was read from.
InitLayout ==
  \E names \in SUBSET SectionNames, file_size \in (MaxEnd - 1)..(MaxEnd + 1) :
    \E layout \in [names -> Ranges] :
      StartOf(EmptyMap, [pc |-> "layout", layout |-> layout,
                         file_size |-> file_size, exc |-> "none"])

CheckLayout ==
  /\ run.pc = "layout"
  /\ \E exc \in {check_layout(run.layout, run.file_size)} :
       /\ Step("check_layout", <<>>, exc, "none", {}, fs)
       /\ run' = [run EXCEPT !.pc = "checked", !.exc = exc]
  /\ UNCHANGED <<image_files, versions>>

NextLayout == CheckLayout

SpecLayout == InitLayout /\ [][NextLayout]_vars

\* ------------------------------------------------- model build properties
ModelCalled == last.op = "_ProcessModel"

\* The arguments of the last _ProcessModel call.
ModelArgs == last.args[1]

MergeArg == last.args[2]

NoImages ==
  ModelArgs.bios_image = NoName /\ ModelArgs.ec_image = NoName
    /\ ModelArgs.pd_image = NoName

FailedNoImage == last.exc = "PackError" /\ last.reason = "NoImageProvided"

\* C12 as stated: a model build fails with NoImageProvided exactly when
\* the BIOS, EC and PD images are all absent.
C12_Original == ModelCalled => (FailedNoImage <=> NoImages)

\* C12 (amended): a model build whose update script and tools are found
\* fails with NoImageProvided exactly when the BIOS, EC and PD images are
\* all absent, and then touches no file; a build with an image never
\* fails with NoImageProvided.
C12_NoImageProvided ==
  ModelCalled =>
    /\ (ModelArgs.script_exists /\ ModelArgs.tools_found)
         => (FailedNoImage <=> NoImages)
    /\ FailedNoImage => (NoImages /\ fs = pre)

C12_Witness ==
  /\ ModelCalled /\ NoImages /\ FailedNoImage
  /\ ModelArgs.bios_rw_image # NoName

\* The calls _CopyFirmwareFiles made for the last model, by function.
Calls(function) == {i \in 1..Len(run.trace) : run.trace[i][1] = function}

\* The artifacts of the last model.
ImageMain == ModelPath(ModelArgs.model, IMAGE_MAIN)

ImageMainRw == ModelPath(ModelArgs.model, IMAGE_MAIN_RW)

ImageEc == ModelPath(ModelArgs.model, IMAGE_EC)

ImagePd == ModelPath(ModelArgs.model, IMAGE_PD)

MergeInEffect ==
  ModelArgs.bios_image # NoName /\ ModelArgs.bios_rw_image # NoName /\ MergeArg

\* An artifact that exists holds the bytes of the input it was copied from.
Unchanged(artifact, input) ==
  (artifact \in DOMAIN fs /\ input # NoName) => fs[artifact].data = pre[input].data

\* C13: unless a BIOS image is present, an RW image was supplied and
\* merging was asked for, the build of a model splices no RW section
\* into the BIOS artifact, rewrites no EC_RW section of the EC or PD
\* artifact and records no "EC (RW)" or "PD (RW)" component.
C13_MergeOnlyWhenSupplied ==
  (ModelCalled /\ ~MergeInEffect) =>
    /\ Calls("_MergeRwFirmware") = {} /\ Calls("_MergeRwEcFirmware") = {}
    /\ Unchanged(ImageMain, ModelArgs.bios_image)
    /\ Unchanged(ImageEc, ModelArgs.ec_image)
    /\ Unchanged(ImagePd, ModelArgs.pd_image)
    /\ last.exc = "none" =>
         ~Has(image_files, RwName(EC)) /\ ~Has(image_files, RwName(PD))

\* An RW image created from the RO image, merging asked for, EC and PD given.
C13_Witness ==
  /\ ModelCalled /\ last.exc = "none" /\ MergeArg
  /\ ModelArgs.bios_rw_image = NoName /\ ModelArgs.create_bios_rw_image
  /\ Has(image_files, RwName(BIOS)) /\ Has(image_files, EC) /\ Has(image_files, PD)

\* The lines the last model added to the version text.
ModelBlock == SubSeq(versions, last.args[3] + 1, Len(versions))

LinesOf(name, kind) ==
  {i \in 1..Len(ModelBlock) : ModelBlock[i].name = name /\ ModelBlock[i].kind = kind}

CreateFromRo ==
  /\ ModelCalled /\ ModelArgs.script_exists /\ ModelArgs.tools_found
  /\ ModelArgs.bios_image # NoName /\ ModelArgs.bios_rw_image = NoName
  /\ ModelArgs.create_bios_rw_image
  /\ Bit0(GetPreambleFlags(pre, ModelArgs.bios_image).value) = 1

\* C14: a build with a BIOS image whose indicator bit is set, no RW image
\* and creation of the RW image asked for produces an RW artifact with
\* indicator bit 0 and the BIOS image's modification time, and, unless
\* the extra files fail, succeeds with a "BIOS (RW)" image line for that
\* artifact in the model's block.
C14_CreatedRwImage ==
  CreateFromRo =>
    /\ ImageMainRw \in DOMAIN fs
    /\ Bit0(GetPreambleFlags(fs, ImageMainRw).value) = 0
    /\ fs[ImageMainRw].mtime = pre[ModelArgs.bios_image].mtime
    /\ (last.exc = "none") <=> (ModelArgs.extras # "empty folder")
    /\ last.exc = "none" =>
         \E i \in LinesOf(RwName(BIOS), "image") :
           /\ ModelBlock[i].path = ShortFname(ImageMainRw)
           /\ ModelBlock[i].digest = Md5(fs[ImageMainRw].data)

C14_Witness ==
  /\ CreateFromRo /\ last.exc = "none" /\ MergeArg
  /\ pre[ModelArgs.bios_image].mtime < Now
  /\ LinesOf(RwName(BIOS), "image") # {}

RwSupplied == ModelCalled /\ ModelArgs.bios_rw_image # NoName

\* Byte i (from 0) is in section name of the layout.
InSection(layout, name, i) ==
  /\ name \in DOMAIN GetFMAP(layout)
  /\ GetFMAP(layout)[name].offset <= i
  /\ i < GetFMAP(layout)[name].offset + GetFMAP(layout)[name].size

\* The BIOS image with the RW image's bytes in RW_SECTION_A and B.
Spliced(bios, rw) ==
  [i \in 1..Len(bios.data) |->
     IF InSection(bios.layout, "RW_SECTION_A", i - 1)
        \/ InSection(bios.layout, "RW_SECTION_B", i - 1)
     THEN rw.data[i] ELSE bios.data[i]]

\* C15: with an RW image supplied, the first thing done with it is the
\* check that it is an RW image, and nothing else is done with it when
\* the check fails. A successful build with a BIOS image and merging
\* leaves the BIOS artifact equal to the BIOS image except for
\* RW_SECTION_A and RW_SECTION_B, which hold the RW image's bytes; without
\* merging the BIOS artifact has the BIOS image's bytes and the RW image
\* is an artifact of its own.
C15_SuppliedRwImage ==
  RwSupplied =>
    /\ \A i \in 1..Len(run.trace) :
         run.trace[i][2] = ModelArgs.bios_rw_image =>
           /\ run.trace[CHOOSE j \in 1..i :
                          run.trace[j][2] = ModelArgs.bios_rw_image
                          /\ \A k \in 1..(j - 1) :
                               run.trace[k][2] # ModelArgs.bios_rw_image][1]
                = "_CheckRwFirmware"
           /\ (last.reason = "NotReadWriteFirmware") => (i = Len(run.trace))
    /\ (last.exc = "none" /\ ModelArgs.bios_image # NoName /\ MergeArg) =>
         /\ fs[ImageMain].data
              = Spliced(pre[ModelArgs.bios_image], pre[ModelArgs.bios_rw_image])
         /\ ImageMainRw \notin DOMAIN fs
    /\ (last.exc = "none" /\ ~MergeArg) =>
         /\ Unchanged(ImageMain, ModelArgs.bios_image)
         /\ ImageMainRw \in DOMAIN fs
         /\ fs[ImageMainRw].data = pre[ModelArgs.bios_rw_image].data

C15_Witness ==
  /\ RwSupplied /\ last.exc = "none" /\ MergeArg
  /\ ModelArgs.bios_image # NoName
  /\ fs[ImageMain].data # pre[ModelArgs.bios_image].data
  /\ fs[ImageMain].data # pre[ModelArgs.bios_rw_image].data

\* ------------------------------------------- substitution map properties
\* The last step built the replacement values from image_files.
MapMade ==
  /\ last.exc = "none"
  /\ \/ last.op = "_WriteUpdateScript"
     \/ last.op = "_ProcessModel" /\ run.args.models

\* The ID held by a section of a file, as the run's tools show it.
IdIn(fname, section_name) == ExtractFrid(fs, fname, section_name).value

\* The RW component's image while the run's directories exist.
RwComponent ==
  /\ Has(image_files, RwName(BIOS))
  /\ Lookup(image_files, RwName(BIOS)).filename \in DOMAIN fs

\* C16: the RW firmware ID of the replacement values is the RW image's
\* firmware ID when an RW component with a non-empty ID was recorded, and
\* the RO firmware ID in every other case; a recorded RW component has
\* the ID its image holds.
C16_EffectiveRwId ==
  /\ MapMade =>
       run.replace.REPLACE_FWID
         = IF VersionOf(image_files, RwName(BIOS)) # <<>>
           THEN Lookup(image_files, RwName(BIOS)).version
           ELSE run.replace.REPLACE_RO_FWID
  /\ RwComponent =>
       Lookup(image_files, RwName(BIOS)).version
         = IdIn(Lookup(image_files, RwName(BIOS)).filename, "RO_FRID")

C16_Witness ==
  /\ MapMade /\ RwComponent
  /\ run.replace.REPLACE_FWID = <<82, 46, 50>>
  /\ run.replace.REPLACE_RO_FWID = <<71, 46, 57>>

\* The arguments of the _ProcessModel call made last.
LastArgs == CallOf([run EXCEPT !.idx = Len(run.processed)])

\* The last model was built from a BIOS image alone.
BiosOnly ==
  /\ run.processed # <<>>
  /\ LastArgs.bios_image # NoName /\ LastArgs.bios_rw_image = NoName
  /\ LastArgs.ec_image = NoName /\ LastArgs.pd_image = NoName
  /\ ~LastArgs.create_bios_rw_image

\* p is what comes before the first '.' of id: all of id without one.
BeforeFirstDot(p, id) ==
  /\ Len(p) <= Len(id)
  /\ p = SubSeq(id, 1, Len(p))
  /\ \A i \in 1..Len(p) : p[i] # 46
  /\ Len(p) < Len(id) => id[Len(p) + 1] = 46

NoRoId ==
  /\ run.processed # <<>>
  /\ LastArgs.bios_image # NoName
  /\ IdIn(LastArgs.bios_image, "RO_FRID") = <<>>

\* The block of a build without RO ID: a BIOS image line, no BIOS version.
IgnoredInBlock ==
  (ModelCalled /\ last.exc = "none") =>
    /\ Lookup(image_files, BIOS).version = IGNORE
    /\ LinesOf(BIOS, "image") # {}
    /\ LinesOf(BIOS, "version") = {}

\* The recorded version of a component, the Ignored marker without one.
OrIgnore(name) ==
  IF VersionOf(image_files, name) # <<>> THEN Lookup(image_files, name).version
  ELSE IGNORE

\* C18 as stated: without an RO ID in the BIOS image the build does not
\* fail, the BIOS version is the Ignored marker, the block has a BIOS
\* image line and no BIOS version line, and the RO, RW, EC and PD IDs and
\* the platform of the replacement values are all the Ignored marker.
C18_Original ==
  NoRoId =>
    /\ IgnoredInBlock
    /\ MapMade =>
         /\ run.replace.REPLACE_RO_FWID = IGNORE
         /\ run.replace.REPLACE_FWID = IGNORE
         /\ run.replace.REPLACE_ECID = IGNORE
         /\ run.replace.REPLACE_PDID = IGNORE
         /\ run.replace.REPLACE_PLATFORM = IGNORE

\* C18 (amended): without an RO ID in the BIOS image a build from the
\* BIOS image alone does not fail; in every build that succeeds the BIOS
\* version is the Ignored marker and the block has a BIOS image line and
\* no BIOS version line; the RO ID and the platform of the replacement
\* values are the Ignored marker, and the RW, EC and PD IDs are the
\* version recorded for the RW, EC or PD image if it is not empty and the
\* Ignored marker otherwise.
C18_IgnoredRoId ==
  NoRoId =>
    /\ (ModelCalled /\ BiosOnly /\ LastArgs.script_exists /\ LastArgs.tools_found
          /\ LastArgs.extras # "empty folder") => last.exc = "none"
    /\ IgnoredInBlock
    /\ MapMade =>
         /\ run.replace.REPLACE_RO_FWID = IGNORE
         /\ run.replace.REPLACE_PLATFORM = IGNORE
         /\ run.replace.REPLACE_FWID = OrIgnore(RwName(BIOS))
         /\ run.replace.REPLACE_ECID = OrIgnore(EC)
         /\ run.replace.REPLACE_PDID = OrIgnore(PD)

C18_Witness ==
  /\ NoRoId /\ MapMade
  /\ run.replace.REPLACE_RO_FWID = IGNORE
  /\ run.replace.REPLACE_ECID = <<69, 46, 49>>
  /\ run.replace.REPLACE_PDID = IGNORE
  /\ run.replace.REPLACE_FWID = <<82, 46, 50>>

\* The RO ID an input image of the last model holds.
InputId(image) == ExtractFrid(pre, image, "RO_FRID").value

\* The version recorded for a component is the image's RO ID, or the
\* default when the image has none.
DefaultUsed(name, image) ==
  Lookup(image_files, name).version
    = IF InputId(image) = <<>> THEN ModelArgs.default_ec_version ELSE InputId(image)

\* C19 as stated: for the EC image and the PD image alike, the recorded
\* version is the caller's default when the image's RO ID cannot be
\* extracted, and the RO ID when it can.
C19_Original ==
  (ModelCalled /\ last.exc = "none") =>
    /\ ModelArgs.ec_image # NoName => DefaultUsed(EC, ModelArgs.ec_image)
    /\ ModelArgs.pd_image # NoName => DefaultUsed(PD, ModelArgs.pd_image)

\* C19 (amended): the version recorded for the EC image is the caller's
\* default EC version when the image's RO ID cannot be extracted and the
\* RO ID when it can; the version recorded for the PD image is its RO ID,
\* empty when it cannot be extracted, whatever the default.
C19_DefaultEcVersion ==
  (ModelCalled /\ last.exc = "none") =>
    /\ ModelArgs.ec_image # NoName => DefaultUsed(EC, ModelArgs.ec_image)
    /\ ModelArgs.pd_image # NoName =>
         Lookup(image_files, PD).version = InputId(ModelArgs.pd_image)

C19_Witness ==
  /\ ModelCalled /\ last.exc = "none"
  /\ ModelArgs.ec_image # NoName /\ ModelArgs.pd_image # NoName
  /\ InputId(ModelArgs.ec_image) = <<>> /\ InputId(ModelArgs.pd_image) = <<>>
  /\ ModelArgs.default_ec_version = <<68>>
  /\ Lookup(image_files, EC).version = <<68>>
  /\ Lookup(image_files, PD).version = <<>>

\* ------------------------------------------------------- run properties
\* The final output written so far: update script, VERSION, shellball.
FinalOutput == {i \in 1..Len(run.outputs) : run.outputs[i].what # "setvars.sh"}

FailedModels == {i \in 1..Len(run.processed) : run.processed[i].exc # "none"}

\* C20: the models are processed in their order; a model that fails is
\* the last one processed, and once a model has failed no final output is
\* ever written; the update script, the VERSION file and the shellball
\* are written only when every model has been processed without failure.
C20_AbortOnFailure ==
  /\ Len(run.processed) <= Len(run.models)
  /\ \A i \in 1..Len(run.processed) : run.processed[i].model = run.models[i].model
  /\ FailedModels \subseteq {Len(run.processed)}
  /\ FailedModels # {} => FinalOutput = {}
  /\ FinalOutput # {} =>
       /\ Len(run.processed) = Len(run.models)
       /\ [i \in 1..3 |-> run.outputs[Len(run.outputs) - 3 + i].what]
            = <<"update script", "VERSION", "shellball">>
       /\ Cardinality(FinalOutput) = 3

\* The first of two models failed and the run is over.
C20_Witness ==
  /\ run.pc = "done"
  /\ Len(run.models) = 2
  /\ Len(run.processed) = 1
  /\ FailedModels = {1}
  /\ run.outputs = <<>>

\* Start has returned or raised.
RunEnded == run.pc = "done"

\* C21: when Start has returned or raised, whatever the exit path, no
\* directory it created exists, nothing is left of what the run put in
\* them, and no directory is tracked; while the run goes on the tracked
\* directories are the ones that exist.
C21_TmpdirsRemoved ==
  /\ RunEnded =>
       /\ run.dirs = {}
       /\ run.tmp_dirs = <<>>
       /\ DOMAIN fs \subseteq InputPaths
  /\ run.dirs = {run.tmp_dirs[i] : i \in 1..Len(run.tmp_dirs)}
  /\ (DOMAIN fs \subseteq InputPaths) \/ run.dirs # {}

\* A run that failed after it had put files in both directories.
C21_Witness ==
  /\ RunEnded /\ run.exc # "none" /\ last.op = "_RemoveTmpdirs"
  /\ \E p \in DOMAIN pre : InTmpdir(p)
  /\ \E p \in DOMAIN pre : p \notin InputPaths /\ ~InTmpdir(p)
  /\ run.processed # <<>>

\* The paths of the firmware artifacts of a model.
Artifacts(model) ==
  {ModelPath(model, leaf) : leaf \in {IMAGE_MAIN, IMAGE_MAIN_RW, IMAGE_EC, IMAGE_PD}}

\* The models other than the one of the last _ProcessModel call.
OtherModels == {ModelList[i] : i \in 1..Len(ModelList)} \ {ModelArgs.model}

\* C22: in a multi-model run the artifacts of two distinct models have
\* distinct paths, every artifact written is in the directory of the model
\* being processed, and processing a model leaves every artifact of another
\* model as it was (bytes, and the rest of the file).
C22_PerModelArtifacts ==
  /\ \A i, j \in 1..Len(ModelList) :
       i # j => Artifacts(ModelList[i]) \cap Artifacts(ModelList[j]) = {}
  /\ (run.args.models /\ ModelCalled) =>
       /\ \A o \in OtherModels : \A p \in Artifacts(o) :
            /\ p \in DOMAIN fs <=> p \in DOMAIN pre
            /\ p \in DOMAIN pre => fs[p] = pre[p]
       /\ \A p \in DOMAIN fs \ DOMAIN pre :
            p \in Artifacts(ModelArgs.model) \/ InTmpdir(p)

\* The second model has been processed and wrote its BIOS and EC artifacts
\* while the first model's were there.
C22_Witness ==
  /\ run.args.models /\ ModelCalled /\ last.exc = "none"
  /\ ModelArgs.model = ModelList[2]
  /\ {ModelPath(ModelList[1], IMAGE_MAIN), ModelPath(ModelList[1], IMAGE_EC)}
       \subseteq DOMAIN pre
  /\ {ModelPath(ModelList[2], IMAGE_MAIN), ModelPath(ModelList[2], IMAGE_EC)}
       \subseteq DOMAIN fs \ DOMAIN pre

\* The last call was the given operation and it returned.
Returned(op) == last.op = op /\ last.exc = "none"

\* The EC and PD artifacts the last _CopyFirmwareFiles call merged a
\* payload into.
MergedControllers == {p \in {IMAGE_EC, IMAGE_PD} : p \in DOMAIN fs}

\* The claim as stated: every successful splice, a clone of one section
\* included, leaves the destination with the source's timestamp.
C23_Original ==
  /\ Returned("clone_section") => fs[last.args[1]].mtime = fs[last.args[2]].mtime
  /\ Returned("_MergeRwFirmware") => fs[last.args[1]].mtime = fs[last.args[2]].mtime
  /\ Returned("merge_ec_rw") => fs[last.args[1]].mtime = fs[last.args[2]].mtime

\* C23: the timestamp is copied once the splice is complete. A successful
\* merge of the RW image (both sections cloned) leaves the BIOS artifact
\* with the RW image's timestamp, a successful EC RW merge leaves the EC or
\* PD artifact with the timestamp of the image the payload came from, and
\* after a merging build the BIOS artifact and every merged EC or PD
\* artifact have the timestamp of the RW BIOS input. A successful clone of
\* one section alone leaves the destination with the time of the write.
C23_TimestampAfterSplice ==
  /\ Returned("clone_section") => fs[last.args[1]].mtime = Now
  /\ Returned("_MergeRwFirmware") =>
       /\ fs[last.args[1]].mtime = pre[last.args[2]].mtime
       /\ fs[last.args[2]] = pre[last.args[2]]
  /\ Returned("merge_ec_rw") =>
       /\ fs[last.args[1]].mtime = pre[last.args[2]].mtime
       /\ fs[last.args[2]] = pre[last.args[2]]
  /\ Returned("_CopyFirmwareFiles") =>
       /\ fs[IMAGE_MAIN].mtime = pre[IN_BIOS_RW].mtime
       /\ \A p \in MergedControllers : fs[p].mtime = pre[IN_BIOS_RW].mtime

\* A merging build with an EC and a PD image has returned; their inputs
\* had another timestamp than the RW BIOS input.
C23_Witness ==
  /\ Returned("_CopyFirmwareFiles")
  /\ MergedControllers = {IMAGE_EC, IMAGE_PD}
  /\ pre[IN_EC].mtime # pre[IN_BIOS_RW].mtime
  /\ pre[IN_BIOS].mtime # pre[IN_BIOS_RW].mtime
  /\ fs[IMAGE_MAIN].data # pre[IN_BIOS].data

\* The files without what earlier extractions left in the temporary
\* directory.
Fresh(fsys) == [p \in DOMAIN fsys \ {TMP_ECRW, TMP_EC_MAIN_A} |-> fsys[p]]

\* The extraction of the last merge, made in an empty temporary directory.
FreshExtraction == ExtractEcRw(Fresh(pre), MergeSrc, last.args[3], TMP_ECRW)

\* C24: the payload an extraction leaves in the temporary directory is the
\* one the same extraction gives in an empty temporary directory: it
\* depends on the source image alone, whatever was extracted before.
C24_HistoryIndependent ==
  (MergeCalled /\ FreshExtraction.exc = "none") =>
    /\ TMP_ECRW \in DOMAIN fs
    /\ fs[TMP_ECRW].data = FreshExtraction.fs[TMP_ECRW].data

\* C25: a merge of the RW image that fails, the validation of
\* RW_SECTION_A or of RW_SECTION_B refusing the splice, leaves the BIOS
\* artifact as it was: neither section replaced, timestamp unchanged.
C25_MergeAllOrNothing ==
  (last.op = "_MergeRwFirmware" /\ last.exc # "none") =>
    fs[last.args[1]] = pre[last.args[1]]

\* The last model has an EC or a PD image and no BIOS image, RW or not;
\* its script, its tools and its extra files are found.
NoBiosModel ==
  /\ run.processed # <<>>
  /\ LastArgs.bios_image = NoName /\ LastArgs.bios_rw_image = NoName
  /\ ~LastArgs.create_bios_rw_image
  /\ LastArgs.ec_image # NoName \/ LastArgs.pd_image # NoName
  /\ LastArgs.script_exists /\ LastArgs.tools_found /\ LastArgs.extras # "empty folder"

\* C26: a model with an EC or a PD image and no BIOS image is assembled
\* and its substitution map is built: neither the build of the model nor
\* the making of the map raises.
C26_NoBiosModelBuilds ==
  (NoBiosModel /\ last.op \in {"_ProcessModel", "_WriteUpdateScript"}) =>
    last.exc = "none"

\* ------------------------------------------------------ SAFT properties
Invoked == last.op = "next_step"

\* The state the last invocation started from, and what the machine had
\* come up with.
Before == last.args[1]

BootVector == last.args[2]

NowFwid == last.args[3]

ThisStep == get_step(Before)

Expected == TEST_STATE_SEQUENCE[ThisStep + 1]

LastIndex == Len(TEST_STATE_SEQUENCE) - 1

\* The calls of the step's action, none for a step without action.
ActionCalls ==
  IF Expected.action = None THEN <<>> ELSE Perform(Before, Expected).performed

\* The invocation passed the step: the vector and the FWID were right, the
\* step's action and nothing else was performed, the next step was stored
\* and the machine restarted.
Passed ==
  /\ BootVector = Expected.vector
  /\ Expected.action # None => verify_fw_id(run.saft.fwid_new, NowFwid)
  /\ run.saft.performed = ActionCalls
  /\ run.saft.state_dir /\ get_step(run.saft) = ThisStep + 1
  /\ Len(run.saft.trace) >= 2
  /\ SubSeq(run.saft.trace, Len(run.saft.trace) - 1, Len(run.saft.trace))
       = <<"_set_step", "reboot">>

\* The invocation exited with failure: nothing performed, the step kept.
FailedAtStep ==
  /\ last.exc = "SystemExit"
  /\ run.saft.performed = <<>>
  /\ run.saft.state_dir /\ get_step(run.saft) = ThisStep
  /\ "reboot" \notin {run.saft.trace[i] : i \in 1..Len(run.saft.trace)}

\* The claim as stated: every invocation, the one at the last step
\* included, passes its step or fails at it.
C27_Original == Invoked => (Passed \/ FailedAtStep)

\* The run was finished: state directory and upstart scripts removed, no
\* action performed, no step stored.
Finished ==
  /\ BootVector = Expected.vector /\ verify_fw_id(Before.fwid_bak, NowFwid)
  /\ run.saft.performed = <<>>
  /\ ~run.saft.state_dir /\ ~run.saft.upstart /\ run.saft.step_file = NoFile

\* C27: an invocation at a stored step i before the last passes step i
\* (vector and FWID right, exactly the action of step i performed, i+1
\* stored, then the reboot) or exits with failure, nothing performed and i
\* still stored; at the last step it exits with failure in the same way or
\* finishes the run, after which no step is stored. While a step is stored
\* it never decreases and never skips a value.
C27_StepsInOrder ==
  Invoked =>
    /\ ThisStep < LastIndex => (Passed \/ FailedAtStep)
    /\ ThisStep = LastIndex => (Finished \/ FailedAtStep)
    /\ run.saft.state_dir => get_step(run.saft) \in {ThisStep, ThisStep + 1}
    /\ (Passed /\ FailedAtStep) = FALSE

\* The step with the two-section action was passed: step 5 is stored.
C27_Witness ==
  /\ Invoked /\ Passed /\ ThisStep = 4 /\ Len(run.saft.performed) = 2
  /\ run.saft.step_file = FormatInt(5)

\* Position of the calls of a function in the last invocation.
CallsOf(function) == {i \in 1..Len(run.saft.trace) : run.saft.trace[i] = function}

\* C28: finish_saft is called only at the last index with the expected
\* boot vector; an earlier step without action only advances the step;
\* finish_saft completes (removes the state directory) only if the FWID is
\* the backed-up original one; and once the state directory is removed the
\* step file is not written to again.
C28_EndsAtLastEntry ==
  Invoked =>
    /\ CallsOf("finish_saft") # {} =>
         ThisStep = LastIndex /\ BootVector = Expected.vector
    /\ (ThisStep < LastIndex /\ Expected.action = None /\ last.exc = "none") =>
         /\ run.saft.performed = <<>>
         /\ get_step(run.saft) = ThisStep + 1
    /\ CallsOf("shut_down") # {} => verify_fw_id(Before.fwid_bak, NowFwid)
    /\ \A i \in CallsOf("shut_down"), j \in CallsOf("_set_step") : j < i

\* ------------------------------------------- flashrom image properties
\* The body of the section the last call was for, before the call, and the
\* place in the image (from 1) of the byte the call is to modify.
BodyPos == run.bios_layout[fv_sections[last.args[1]].body_name]

TargetPlace == BodyPos[1] + ((BodyPos[2] - BodyPos[1] + 1) \div 20) + 1

\* The places where two images of the same length differ.
Differ(x, y) == {i \in 1..Len(x) : x[i] # y[i]}

\* C29: for section 'a' or 'b', corrupt_section changes the byte of the
\* body at index len(body)/20, by +1 modulo 256, and no other byte of the
\* image; a restore_section of the same section right after it gives the
\* image its former bytes back.
C29_CorruptRestoreRoundTrip ==
  /\ (last.op = "corrupt_section" /\ last.args[1] \in {"a", "b"}) =>
       /\ last.exc = "none"
       /\ Len(run.image) = Len(run.before)
       /\ Differ(run.image, run.before) = {TargetPlace}
       /\ run.image[TargetPlace] = (run.before[TargetPlace] + 1) % 256
       /\ run.image[TargetPlace] \in 0..255
  /\ (/\ last.op = "restore_section" /\ prev.op = "corrupt_section"
      /\ last.args = prev.args /\ last.args[1] \in {"a", "b"}) =>
       /\ last.exc = "none"
       /\ run.image = run.before2

\* Section 'b', its body long enough for the byte at index 1 to be the
\* one modified, was corrupted, the byte 255 becoming 0, and restored.
C29_Witness ==
  /\ last.op = "restore_section" /\ prev.op = "corrupt_section"
  /\ last.args = <<"b">> /\ prev.args = <<"b">>
  /\ TargetPlace = BodyPos[1] + 2
  /\ run.before2[TargetPlace] = 255 /\ run.before[TargetPlace] = 0
  /\ run.image[TargetPlace] = 255

\* ---------------------------------------------- layout check properties
\* The byte offsets of a section.
BytesOf(range) == range[1]..range[2]

\* No two sections have a byte in common and every section ends inside
\* the file, whose bytes are at the offsets 0..file_size-1.
Consistent(layout, file_size) ==
  /\ \A m, n \in DOMAIN layout :
       m # n => BytesOf(layout[m]) \cap BytesOf(layout[n]) = {}
  /\ \A n \in DOMAIN layout : layout[n][2] <= file_size - 1

\* C30: check_layout returns if and only if no two sections of the layout
\* overlap in any byte and no section extends past the end of the file;
\* for every other layout it raises TestError.
C30_CheckLayoutExact ==
  last.op = "check_layout" =>
    /\ last.exc \in {"none", "TestError"}
    /\ last.exc = "none" <=> Consistent(run.layout, run.file_size)

\* ---------------------------------------------- section-clone properties
CloneCalled == last.op = "clone_section"

CloneDst == last.args[1]

CloneSrc == last.args[2]

CloneName == last.args[3]

\* The named section as the two blobs listed it when the call was made.
PreDstMap == GetFMAP(pre[CloneDst].layout)

PreSrcMap == GetFMAP(pre[CloneSrc].layout)

BothListed == CloneName \in DOMAIN PreDstMap /\ CloneName \in DOMAIN PreSrcMap

\* C1: after a successful clone_section, dst holds src's bytes in
\* [offset, offset+size), every other byte of dst and dst's length are
\* as before, and src is as before.
C1_CloneFrame ==
  (CloneCalled /\ last.exc = "none") =>
    LET sec == PreSrcMap[CloneName]
        old == pre[CloneDst].data
        new == fs[CloneDst].data
    IN /\ Len(new) = Len(old)
       /\ \A i \in 1..Len(new) :
            new[i] = IF sec.offset < i /\ i <= sec.offset + sec.size
                     THEN pre[CloneSrc].data[i] ELSE old[i]
       /\ fs[CloneSrc].data = pre[CloneSrc].data
       /\ (CloneSrc # CloneDst => fs[CloneSrc] = pre[CloneSrc])

\* A clone between two different blobs that replaced some bytes and kept others.
C1_Witness ==
  /\ CloneCalled /\ last.exc = "none" /\ CloneSrc # CloneDst
  /\ fs[CloneDst].data # pre[CloneDst].data
  /\ \E i \in 1..Len(fs[CloneDst].data) : fs[CloneDst].data[i] = pre[CloneDst].data[i]

SectionsDiffer ==
  /\ BothListed
  /\ \/ PreSrcMap[CloneName].size # PreDstMap[CloneName].size
     \/ PreSrcMap[CloneName].offset # PreDstMap[CloneName].offset

MatchingErrors ==
  {r \in {"SectionSizeMismatch"} :
     PreSrcMap[CloneName].size # PreDstMap[CloneName].size}
  \cup {r \in {"SectionOffsetMismatch"} :
          PreSrcMap[CloneName].offset # PreDstMap[CloneName].offset}

\* C2 as stated: whenever the section differs in size or in offset,
\* clone_section fails with the matching mismatch error and changes
\* neither blob.
C2_Original ==
  (CloneCalled /\ SectionsDiffer) =>
    /\ last.exc = "PackError"
    /\ last.reason \in MatchingErrors
    /\ fs = pre

\* C2 (amended): whenever the section has a non-zero size in src and
\* differs in size or in offset, clone_section fails with
\* SectionSizeMismatch if the sizes differ and with SectionOffsetMismatch
\* if only the offsets differ, and changes neither blob; with a zero size
\* in src it fails with InvalidSection, changing neither blob.
C2_MismatchFails ==
  (CloneCalled /\ SectionsDiffer) =>
    /\ last.exc = "PackError"
    /\ last.reason =
         (IF PreSrcMap[CloneName].size = 0 THEN "InvalidSection"
          ELSE IF PreSrcMap[CloneName].size # PreDstMap[CloneName].size
          THEN "SectionSizeMismatch" ELSE "SectionOffsetMismatch")
    /\ fs = pre

\* A clone refused because only the offsets differ.
C2_Witness ==
  /\ CloneCalled /\ SectionsDiffer
  /\ PreSrcMap[CloneName].size # 0
  /\ PreSrcMap[CloneName].size = PreDstMap[CloneName].size
  /\ last.reason = "SectionOffsetMismatch"

SameCallTwice ==
  /\ CloneCalled
  /\ prev.op = "clone_section" /\ prev.args = last.args /\ prev.exc = "none"

\* C3: a clone_section that follows a successful clone_section with
\* the same arguments succeeds too and leaves dst's bytes as the first
\* call left them.
C3_CloneIdempotent ==
  SameCallTwice =>
    /\ last.exc = "none"
    /\ fs[CloneDst].data = pre[CloneDst].data

\* The same clone done twice between two different blobs, dst holding
\* bytes that the first call brought in.
C3_Witness ==
  /\ SameCallTwice /\ CloneDst = IMAGE_MAIN /\ CloneSrc = IMAGE_MAIN_RW
  /\ \E i \in 1..Len(fs[CloneDst].data) : fs[CloneDst].data[i] > 20

\* C4: when the section is missing from dst's or src's section map,
\* clone_section fails with a PackError and dst is unchanged.
C4_NotFoundIsPackError ==
  (CloneCalled /\ ~BothListed) =>
    /\ last.exc = "PackError"
    /\ fs[CloneDst] = pre[CloneDst]

====
